---------------------------- MODULE Spec2Model ----------------------------
(***************************************************************************)
(* Label-setting search engine of alphaRoutePlan: the forward solver       *)
(* (forward_solver.py) and the reverse solver (reverse_solver_pseudocode.py)*)
(* with their discrete-distribution algebra.                               *)
(*                                                                         *)
(* Numbers that are floats in the source are exact rationals here, kept    *)
(* as normalised records [n |-> numerator, d |-> denominator > 0].         *)
(***************************************************************************)
EXTENDS Integers, Sequences, FiniteSets, TLC

(***************************************************************************)
(* Bounds of the model.                                                    *)
(***************************************************************************)
NumNodes == 4
MaxK == 2
MaxLabelBudget == 6

(***************************************************************************)
(* Exact arithmetic standing for the float arithmetic of the source.       *)
(***************************************************************************)
Abs(x) == IF x < 0 THEN -x ELSE x

RECURSIVE GCD(_, _)
GCD(a, b) == IF b = 0 THEN a ELSE GCD(b, a % b)

Norm(n, d) ==
    LET Reduced(s, g) == [n |-> (s * n) \div g, d |-> (s * d) \div g]
    IN  Reduced(IF d < 0 THEN -1 ELSE 1, GCD(Abs(n), Abs(d)))

R(i) == [n |-> i, d |-> 1]
Frac(a, b) == Norm(a, b)
RNeg(x) == [n |-> -x.n, d |-> x.d]
RAdd(x, y) ==
    LET Over(g) == Norm(x.n * (y.d \div g) + y.n * (x.d \div g), (x.d \div g) * y.d)
    IN  Over(GCD(x.d, y.d))
RSub(x, y) == RAdd(x, RNeg(y))
RMul(x, y) ==
    LET Reduced(g1, g2) == [n |-> (x.n \div g1) * (y.n \div g2),
                            d |-> (x.d \div g2) * (y.d \div g1)]
    IN  IF x.n = 0 \/ y.n = 0 THEN R(0)
        ELSE Reduced(GCD(Abs(x.n), y.d), GCD(Abs(y.n), x.d))
RDiv(x, y) ==
    RMul(x, IF y.n < 0 THEN [n |-> -y.d, d |-> -y.n] ELSE [n |-> y.d, d |-> y.n])

\* a/b < c/d for b, d > 0, by comparing integer parts and then the
\* reciprocals of the fractional parts
RECURSIVE FracLt(_, _, _, _)
FracLt(a, b, c, d) ==
    LET qa == a \div b
        qc == c \div d
        ra == a % b
        rc == c % d
    IN  IF qa # qc THEN qa < qc
        ELSE IF rc = 0 THEN FALSE
        ELSE IF ra = 0 THEN TRUE
        ELSE FracLt(d, rc, b, ra)

RLt(x, y) ==
    IF y.d = 0 THEN x.d # 0 ELSE IF x.d = 0 THEN FALSE
    ELSE FracLt(x.n, x.d, y.n, y.d)
RLe(x, y) == ~RLt(y, x)

\* Materialises a sequence given by a rule (np.array, list)
Arr(f) == f \o <<>>

\* math.floor / np.floor and math.ceil / np.ceil
Floor(x) == x.n \div x.d
Ceil(x) == -((-x.n) \div x.d)
\* int(x): truncation toward zero
Trunc(x) == IF x.n >= 0 THEN x.n \div x.d ELSE -((-x.n) \div x.d)
\* round(x): round half to even
RoundHalfEven(x) ==
    LET fl == x.n \div x.d
        rem == x.n - fl * x.d
    IN  IF 2 * rem < x.d THEN fl
        ELSE IF 2 * rem > x.d THEN fl + 1
        ELSE IF fl % 2 = 0 THEN fl ELSE fl + 1

\* sum of a sequence of numbers (exact, so the order of the additions is
\* immaterial: the halves are summed apart)
RECURSIVE RSum(_)
RSum(s) ==
    IF s = <<>> THEN R(0)
    ELSE IF Len(s) = 1 THEN s[1]
    ELSE RAdd(RSum(SubSeq(s, 1, Len(s) \div 2)),
              RSum(SubSeq(s, Len(s) \div 2 + 1, Len(s))))

\* np.cumsum
CumSum(w) == Arr([i \in 1..Len(w) |-> RSum(SubSeq(w, 1, i))])

\* np.linspace(1/(n+1), n/(n+1), n)
Linspace(n) == Arr([j \in 1..n |-> Frac(j, n + 1)])

\* np.interp(x, xp, fp) for increasing xp
Interp(x, xp, fp) ==
    LET n == Len(xp)
        \* x lies in [xp[j], xp[j + 1])
        Between(j) ==
            IF j = n \/ xp[j] = x THEN fp[j]
            ELSE RAdd(fp[j],
                      RMul(RSub(x, xp[j]),
                           RDiv(RSub(fp[j + 1], fp[j]),
                                RSub(xp[j + 1], xp[j]))))
    IN  IF RLt(x, xp[1]) THEN fp[1]
        ELSE IF RLt(xp[n], x) THEN fp[n]
        ELSE Between(CHOOSE i \in 1..n :
                        /\ RLe(xp[i], x)
                        /\ \A k \in (i + 1)..n : RLt(x, xp[k]))

\* Lexicographic order on tuples of numbers (Python tuple comparison)
RECURSIVE LexLt(_, _)
LexLt(a, b) ==
    IF a = <<>> \/ b = <<>> THEN FALSE
    ELSE IF RLt(a[1], b[1]) THEN TRUE
    ELSE IF RLt(b[1], a[1]) THEN FALSE
    ELSE LexLt(Tail(a), Tail(b))

\* sorted(xs, key=..., reverse=rev) and np.argsort: the stable order of the
\* indices 1..Len(keys) by their keys.  An index comes after every index
\* whose key goes first in the order and after every earlier index of equal
\* key (reverse=True keeps the original order of equal keys as well).
SortIdx(keys, rev) ==
    LET n == Len(keys)
        First(a, b) == IF rev THEN LexLt(keys[b], keys[a]) ELSE LexLt(keys[a], keys[b])
        Before(i) == {j \in 1..n : First(j, i) \/ (j < i /\ ~First(i, j))}
        Placed(pos) == Arr([r \in 1..n |-> CHOOSE i \in 1..n : pos[i] = r])
    IN  Placed(Arr([i \in 1..n |-> Cardinality(Before(i)) + 1]))

(***************************************************************************)
(* LinkTimeDistribution: the empirical travel-time distribution of one     *)
(* (edge, slot).  time_prob is the constructor's dictionary, a sequence of *)
(* <<travel time, probability>> pairs with distinct travel times.          *)
(***************************************************************************)
LinkTimeDistribution(time_prob) ==
    LET total_prob == RSum(Arr([i \in 1..Len(time_prob) |-> time_prob[i][2]]))
        Make(times, prob) == [times |-> times, prob |-> prob, cdf |-> CumSum(prob)]
        \* sorted_times with the normalised probability of each
        Sorted(order) ==
            Make(Arr([i \in 1..Len(order) |-> time_prob[order[i]][1]]),
                 Arr([i \in 1..Len(order) |-> RDiv(time_prob[order[i]][2], total_prob)]))
    IN  Sorted(SortIdx(Arr([i \in 1..Len(time_prob) |-> <<R(time_prob[i][1])>>]), FALSE))

\* LinkTimeDistribution._inverse_cdf
InverseCdf(D, quantile) ==
    LET n == Len(D.times)
        \* the sample for the first index i with quantile <= cdf[i]
        At(i) ==
            IF i = 1 THEN D.times[1]
            ELSE LET lower_cdf == D.cdf[i - 1]
                     upper_cdf == D.cdf[i]
                     lower_time == D.times[i - 1]
                     upper_time == D.times[i]
                     weight == IF RLt(lower_cdf, upper_cdf)
                               THEN RDiv(RSub(quantile, lower_cdf),
                                         RSub(upper_cdf, lower_cdf))
                               ELSE Frac(1, 2)
                 IN  RoundHalfEven(RAdd(R(lower_time),
                                        RMul(weight, R(upper_time - lower_time))))
    IN  IF RLe(quantile, R(0)) THEN D.times[1]
        ELSE IF RLe(R(1), quantile) THEN D.times[n]
        ELSE IF \A i \in 1..n : RLt(D.cdf[i], quantile) THEN D.times[n]
        ELSE At(CHOOSE k \in 1..n :
                    /\ RLe(quantile, D.cdf[k])
                    /\ \A m \in 1..(k - 1) : RLt(D.cdf[m], quantile))

\* A sampling that returns the travel time 0 for every quantile
SampleL2TimesZero(D, L2) == Arr([i \in 1..L2 |-> 0])

\* LinkTimeDistribution.sample_L2_times
SampleL2Times(D, L2) ==
    LET Sorted(samples) ==
            LET order == SortIdx(Arr([i \in 1..L2 |-> <<R(samples[i])>>]), FALSE)
            IN  Arr([i \in 1..L2 |-> samples[order[i]]])
    IN  Sorted(Arr([i \in 1..L2 |-> InverseCdf(D, Frac(i, L2 + 1))]))

\* LinkTimeDistribution.get_probability
GetProbability(D, travel_time) ==
    LET n == Len(D.times)
        \* linear interpolation between the neighbouring times i and i + 1
        Interpolated(travel_time_int, i) ==
            LET t_lower == D.times[i]
                t_upper == D.times[i + 1]
                weight == Frac(travel_time_int - t_lower, t_upper - t_lower)
            IN  RAdd(RMul(D.prob[i], RSub(R(1), weight)),
                     RMul(D.prob[i + 1], weight))
        At(travel_time_int) ==
            IF \E i \in 1..n : D.times[i] = travel_time_int
            THEN D.prob[CHOOSE i \in 1..n : D.times[i] = travel_time_int]
            ELSE IF travel_time_int < D.times[1] \/ travel_time_int > D.times[n]
            THEN R(0)
            ELSE Interpolated(travel_time_int,
                              CHOOSE k \in 1..(n - 1) :
                                  /\ D.times[k] <= travel_time_int
                                  /\ travel_time_int <= D.times[k + 1])
    IN  At(RoundHalfEven(travel_time))

(***************************************************************************)
(* The solver's link-distribution table: a sequence of entries             *)
(* [u, v, slot, dist] in the dictionary's insertion order.                 *)
(***************************************************************************)
\* min(candidates, key=cyclic_diff)[0]: the first entry of least cyclic distance
FirstNearest(links, T, cand, slot) ==
    LET CyclicDiff(i) ==
            LET diff == Abs(links[i].slot - slot)
            IN  IF diff <= T - diff THEN diff ELSE T - diff
    IN  CHOOSE i \in cand :
            \A k \in cand : \/ CyclicDiff(i) < CyclicDiff(k)
                            \/ (CyclicDiff(i) = CyclicDiff(k) /\ i <= k)

\* _get_link_distribution_at_slot: index of the entry used, 0 for None
GetLinkDistributionAtSlot(links, T, u, v, slot) ==
    LET exact == {i \in 1..Len(links) :
                    links[i].u = u /\ links[i].v = v /\ links[i].slot = slot}
        tolerance == 5
        candidates == {i \in 1..Len(links) :
                         /\ links[i].u = u /\ links[i].v = v
                         /\ LET diff == Abs(links[i].slot - slot)
                                cyclic_diff == IF diff <= T - diff THEN diff ELSE T - diff
                            IN  cyclic_diff <= tolerance}
    IN  IF exact # {} THEN CHOOSE i \in exact : TRUE
        ELSE IF candidates # {} THEN FirstNearest(links, T, candidates, slot)
        ELSE 0

\* sorted(set(...)) of a set of integers
RECURSIVE SortedSeq(_)
SortedSeq(S) ==
    IF S = {} THEN <<>>
    ELSE LET m == CHOOSE x \in S : \A y \in S : x <= y
         IN  <<m>> \o SortedSeq(S \ {m})

\* _get_available_slots: the slot list used for edge (u, v) and the cache after
\* the call; the cache is the class attribute _slot_cache
GetAvailableSlots(cache, links, u, v) ==
    IF <<u, v>> \in DOMAIN cache
    THEN [slots |-> cache[<<u, v>>], cache |-> cache]
    ELSE LET result == SortedSeq({links[i].slot : i \in
                                    {k \in 1..Len(links) : links[k].u = u /\ links[k].v = v}})
         IN  [slots |-> result, cache |-> (<<u, v>> :> result) @@ cache]

\* _find_nearest_slot
FindNearestSlot(target_slot, available_slots, T) ==
    LET CyclicDist(i) ==
            LET dist == Abs(available_slots[i] - target_slot)
            IN  IF dist <= T - dist THEN dist ELSE T - dist
        best == CHOOSE i \in 1..Len(available_slots) :
                    /\ \A k \in 1..(i - 1) : CyclicDist(i) < CyclicDist(k)
                    /\ \A k \in (i + 1)..Len(available_slots) : CyclicDist(i) <= CyclicDist(k)
    IN  available_slots[best]

\* slot_dep = int(t_dep / 10) % time_intervals_per_day
SlotOf(t, T) == Trunc(RDiv(t, R(10))) % T

\* The distribution a convolution uses for a time t: the exact or tolerated
\* slot, else the nearest available slot; 0 when there is none
LinkDistFor(links, T, u, v, t, available_slots) ==
    LET Fallback(slot_dep, D_slot) ==
            IF D_slot # 0 THEN D_slot
            ELSE GetLinkDistributionAtSlot(links, T, u, v,
                                           FindNearestSlot(slot_dep, available_slots, T))
        At(slot_dep) == Fallback(slot_dep,
                                 GetLinkDistributionAtSlot(links, T, u, v, slot_dep))
    IN  At(SlotOf(t, T))

(***************************************************************************)
(* ForwardDiscreteDistribution (arrival-time distribution).                *)
(***************************************************************************)
Uniform(n) == Arr([i \in 1..n |-> Frac(1, n)])

\* ForwardDiscreteDistribution.__init__; ok = FALSE stands for the ValueError
ForwardDiscreteDistribution(values, L1, weights) ==
    LET Normalised(total) ==
            IF RLt(R(0), total)
            THEN Arr([i \in 1..L1 |-> RDiv(weights[i], total)])
            ELSE Uniform(L1)
        Sorted(w, sorted_indices) ==
            [ok |-> TRUE,
             values |-> Arr([i \in 1..L1 |-> values[sorted_indices[i]]]),
             weights |-> Arr([i \in 1..L1 |-> w[sorted_indices[i]]]),
             L1 |-> L1]
    IN  IF Len(values) # L1 \/ Len(weights) # L1
        THEN [ok |-> FALSE, values |-> <<>>, weights |-> <<>>, L1 |-> L1]
        ELSE Sorted(Normalised(RSum(weights)),
                    SortIdx(Arr([i \in 1..L1 |-> <<values[i]>>]), FALSE))

\* ForwardDiscreteDistribution.get_quantile
ForwardGetQuantile(dist, alpha) ==
    IF RLe(alpha, R(0)) THEN dist.values[1]
    ELSE IF RLe(R(1), alpha) THEN dist.values[Len(dist.values)]
    ELSE Interp(alpha, CumSum(dist.weights), dist.values)

\* get_mean (both distribution classes)
GetMean(dist) ==
    RSum(Arr([i \in 1..Len(dist.values) |-> RMul(dist.values[i], dist.weights[i])]))

\* get_variance (both distribution classes)
GetVariance(dist) ==
    LET Around(mu) ==
            RSum(Arr([i \in 1..Len(dist.values) |->
                    RMul(dist.weights[i],
                         RMul(RSub(dist.values[i], mu), RSub(dist.values[i], mu)))]))
    IN  Around(GetMean(dist))

\* The arrival candidates of forward_convolve, before sorting: for every
\* departure point with a link distribution, L2 pairs <<t_dep + travel, w / L2>>
RECURSIVE ArrivalCandidates(_, _, _, _, _, _, _, _)
ArrivalCandidates(dist, i, links, T, current, successor, L2, available_slots) ==
    IF i > Len(dist.values) THEN <<>>
    ELSE LET t_dep == dist.values[i]
             dep_weight == dist.weights[i]
             Shifted(sampled) == Arr([k \in 1..L2 |-> <<RAdd(t_dep, R(sampled[k])),
                                                      RDiv(dep_weight, R(L2))>>])
             Points(D_slot) == IF D_slot = 0 THEN <<>>
                               ELSE Shifted(SampleL2Times(links[D_slot].dist, L2))
         IN  Points(LinkDistFor(links, T, current, successor, t_dep, available_slots))
             \o ArrivalCandidates(dist, i + 1, links, T, current, successor,
                                  L2, available_slots)

\* Quantile resampling to n evenly spaced points with uniform weights
Resample(times, weights, n) ==
    LET Normalised(cs) == Arr([i \in 1..Len(cs) |-> RDiv(cs[i], cs[Len(cs)])])
        At(cumsum, target_quantiles) ==
            Arr([j \in 1..n |-> Interp(target_quantiles[j], cumsum, times)])
    IN  At(Normalised(CumSum(weights)), Linspace(n))

\* forward_convolve returning the departure distribution itself: the travel
\* time is never added
ForwardConvolveNoTravel(dist, cache, links, current, successor, T, L2, K) ==
    [ok |-> TRUE, dist |-> dist, cache |-> cache]

\* ForwardDiscreteDistribution.forward_convolve; ok = FALSE stands for the
\* ValueError. K is the internal candidate cap.
ForwardConvolve(dist, cache, links, current, successor, T, L2, K) ==
    LET Fail(av) == [ok |-> FALSE, dist |-> dist, cache |-> av.cache]
        Done(av, new) == [ok |-> new.ok, dist |-> new, cache |-> av.cache]
        \* resampling to L1 points when the size differs
        Final(selected_times, selected_weights) ==
            ForwardDiscreteDistribution(
                IF Len(selected_times) # dist.L1
                THEN Resample(selected_times, selected_weights, dist.L1)
                ELSE selected_times,
                dist.L1,
                IF Len(selected_times) # dist.L1 THEN Uniform(dist.L1)
                ELSE selected_weights)
        \* resampling to K points when there are more than K candidates
        Selected(all_arrival_times, all_arrival_weights) ==
            Final(IF Len(all_arrival_times) > K
                  THEN Resample(all_arrival_times, all_arrival_weights, K)
                  ELSE all_arrival_times,
                  IF Len(all_arrival_times) > K THEN Uniform(K)
                  ELSE all_arrival_weights)
        \* the candidates sorted by arrival time
        Sorted(all, order) ==
            Selected(Arr([i \in 1..Len(all) |-> all[order[i]][1]]),
                     Arr([i \in 1..Len(all) |-> all[order[i]][2]]))
        Candidates(av, all) ==
            IF all = <<>> THEN Fail(av)
            ELSE Done(av, Sorted(all, SortIdx(Arr([i \in 1..Len(all) |-> <<all[i][1]>>]),
                                              FALSE)))
        Slots(av) ==
            IF av.slots = <<>> THEN Fail(av)
            ELSE Candidates(av, ArrivalCandidates(dist, 1, links, T, current, successor,
                                                  L2, av.slots))
    IN  Slots(GetAvailableSlots(cache, links, current, successor))

(***************************************************************************)
(* AlphaDiscreteDistribution (departure-time distribution of the reverse   *)
(* solver).                                                                *)
(***************************************************************************)
\* x > 1e-10, the probability threshold of reverse_convolve
ExceedsTiny(x) == x.n > (x.d \div 100000) \div 100000

\* AlphaDiscreteDistribution.__post_init__; has_weights = FALSE is weights=None
AlphaDiscreteDistribution(values, L1, weights, has_weights) ==
    LET w0 == IF has_weights THEN weights ELSE Uniform(Len(values))
        total == RSum(w0)
        w == IF Len(w0) > 0 /\ RLt(R(0), total)
             THEN Arr([i \in 1..Len(w0) |-> RDiv(w0[i], total)])
             ELSE w0
    IN  [ok |-> TRUE, values |-> values, weights |-> w, L1 |-> L1]

SeqMin(s) == CHOOSE x \in {s[i] : i \in 1..Len(s)} :
                \A i \in 1..Len(s) : RLe(x, s[i])
SeqMax(s) == CHOOSE x \in {s[i] : i \in 1..Len(s)} :
                \A i \in 1..Len(s) : RLe(s[i], x)

\* float('inf')
Infinity == [n |-> 1, d |-> 0]

\* AlphaDiscreteDistribution.get_quantile
ReverseGetQuantile(dist, alpha) ==
    IF Len(dist.values) = 0 THEN Infinity
    ELSE IF RLe(alpha, R(0)) THEN SeqMin(dist.values)
    ELSE IF RLe(R(1), alpha) THEN SeqMax(dist.values)
    ELSE LET n == Len(dist.values)
             sorted_idx == SortIdx(Arr([i \in 1..n |-> <<dist.values[i]>>]), FALSE)
             sorted_vals == Arr([i \in 1..n |-> dist.values[sorted_idx[i]]])
             sorted_wts == Arr([i \in 1..n |-> dist.weights[sorted_idx[i]]])
         IN  Interp(alpha, CumSum(sorted_wts), sorted_vals)

\* arrival_probs of reverse_convolve: the weight of every rounded arrival time
ArrivalProbs(dist) ==
    LET keys == {RoundHalfEven(dist.values[i]) : i \in 1..Len(dist.values)}
        raw == [t \in keys |->
                  RSum(Arr([i \in 1..Len(dist.values) |->
                          IF RoundHalfEven(dist.values[i]) = t
                          THEN dist.weights[i] ELSE R(0)]))]
        total_arrival_prob == RSum(Arr([i \in 1..Len(dist.values) |-> dist.weights[i]]))
    IN  IF RLt(R(0), total_arrival_prob)
        THEN [t \in keys |-> RDiv(raw[t], total_arrival_prob)]
        ELSE raw

\* P(t_dep) of reverse_convolve for the link distribution D
DepartureProb(arrival_probs, D, t_dep) ==
    LET Term(prob_arrival, prob_travel) ==
            IF RLt(R(0), prob_travel) THEN RMul(prob_arrival, prob_travel) ELSE R(0)
        Over(ts) ==
            RSum(Arr([i \in 1..Len(ts) |->
                    Term(arrival_probs[ts[i]], GetProbability(D, R(ts[i] - t_dep)))]))
    IN  Over(SortedSeq(DOMAIN arrival_probs))

\* reverse_convolve returning the arrival distribution itself: the travel
\* time is never subtracted
ReverseConvolveNoTravel(dist, cache, links, predecessor, current, T) ==
    [ok |-> TRUE, dist |-> dist, cache |-> cache]

\* AlphaDiscreteDistribution.reverse_convolve; ok = FALSE stands for the
\* ValueError
ReverseConvolve(dist, cache, links, predecessor, current, T) ==
    LET L1 == dist.L1
        Fail(av) == [ok |-> FALSE, dist |-> dist, cache |-> av.cache]
        Done(av, new) == [ok |-> TRUE, dist |-> new, cache |-> av.cache]
        \* the final ordering and normalisation of the sampled points
        Final(sampled_times, sampled_weights, sorted_indices) ==
            LET Normalised(sw0) == Arr([i \in 1..L1 |-> RDiv(sw0[i], RSum(sw0))])
            IN  AlphaDiscreteDistribution(
                    Arr([i \in 1..L1 |-> sampled_times[sorted_indices[i]]]), L1,
                    Normalised(Arr([i \in 1..L1 |-> sampled_weights[sorted_indices[i]]])),
                    TRUE)
        Sampled(sampled_times, sampled_weights) ==
            Final(sampled_times, sampled_weights,
                  SortIdx(Arr([i \in 1..L1 |-> <<sampled_times[i]>>]), FALSE))
        \* deterministic quantile sampling of the departure distribution
        Distribution(times, probs) ==
            Sampled(IF Len(times) # L1
                    THEN Arr([j \in 1..L1 |->
                            Interp(Linspace(L1)[j], CumSum(probs), times)])
                    ELSE times,
                    IF Len(times) # L1 THEN Uniform(L1) ELSE probs)
        Weighted(kept, raw, total_prob) ==
            IF ~ExceedsTiny(total_prob)
            THEN LET m == IF Len(kept) > L1 THEN L1 ELSE Len(kept)
                 IN  AlphaDiscreteDistribution(
                         Arr([i \in 1..m |-> R(kept[i])]), m,
                         Arr([i \in 1..m |-> Frac(1, Len(kept))]), TRUE)
            ELSE Distribution(Arr([i \in 1..Len(kept) |-> R(kept[i])]),
                              Arr([i \in 1..Len(kept) |-> RDiv(raw[i], total_prob)]))
        Summed(kept, raw) == Weighted(kept, raw, RSum(raw))
        \* the departure times min_departure..max_departure of positive probability
        Departures(av, min_departure, max_departure, arrival_probs) ==
            LET At(t_dep, D_slot) ==
                    IF D_slot = 0 THEN R(0)
                    ELSE DepartureProb(arrival_probs, links[D_slot].dist, t_dep)
                Prob(t_dep) == At(t_dep, LinkDistFor(links, T, predecessor, current,
                                                     R(t_dep), av.slots))
                Kept(kept) ==
                    IF kept = <<>>
                    THEN AlphaDiscreteDistribution(<<min_departure>>, 1, <<R(1)>>, TRUE)
                    ELSE Summed(kept, Arr([i \in 1..Len(kept) |-> Prob(kept[i])]))
            IN  Done(av, Kept(SortedSeq({t \in Floor(min_departure)..Ceil(max_departure) :
                                            ExceedsTiny(Prob(t))})))
        TravelTimes(av, all_times) ==
            IF all_times = {} THEN Fail(av)
            ELSE LET min_travel == CHOOSE x \in all_times : \A y \in all_times : x <= y
                     max_all == CHOOSE x \in all_times : \A y \in all_times : y <= x
                     max_travel == IF max_all > 0 THEN max_all ELSE 0
                 IN  Departures(av, RSub(SeqMin(dist.values), R(max_travel)),
                                RSub(SeqMax(dist.values), R(min_travel)),
                                ArrivalProbs(dist))
        Found(av, found) ==
            TravelTimes(av, UNION {{links[k].dist.times[m] :
                                      m \in 1..Len(links[k].dist.times)} : k \in found})
        Slots(av) ==
            IF av.slots = <<>> THEN Fail(av)
            ELSE Found(av, {GetLinkDistributionAtSlot(links, T, predecessor, current,
                                                      av.slots[i]) :
                              i \in 1..Len(av.slots)} \ {0})
    IN  Slots(GetAvailableSlots(cache, links, predecessor, current))

(***************************************************************************)
(* Labels and dominance.                                                   *)
(***************************************************************************)
\* The tolerance of dominates_weak taken as 0
ExceedsZero(x) == x.n > 0

\* x > epsilon with epsilon = 1e-6, the tolerance of dominates_weak
ExceedsEps(x) == x.n > x.d \div 1000000

\* ForwardLabel(node_id, distribution, path, cost) with __post_init__
ForwardLabel(node_id, distribution, path, cost) ==
    [node_id |-> node_id, distribution |-> distribution, path |-> path,
     cost |-> cost,
     mean_cache |-> GetMean(distribution),
     variance_cache |-> GetVariance(distribution)]

\* ReverseLabel(node_id, distribution, path, cost) with __post_init__
ReverseLabel(node_id, distribution, path, cost) ==
    [node_id |-> node_id, distribution |-> distribution, path |-> path,
     cost |-> cost,
     mean_cache |-> GetMean(distribution),
     variance_cache |-> GetVariance(distribution)]

\* ForwardLabel.dominates_weak
ForwardDominatesWeak(self, other, alpha) ==
    LET Rule(Q_self, Q_other, mu_self, mu_other, sigma2_self, sigma2_other) ==
            \/ ExceedsEps(RSub(Q_other, Q_self))
            \/ /\ ~ExceedsEps(RSub(Q_other, Q_self))
               /\ ~ExceedsEps(RSub(Q_self, Q_other))
               /\ \/ ExceedsEps(RSub(mu_other, mu_self))
                  \/ /\ ~ExceedsEps(RSub(mu_other, mu_self))
                     /\ ~ExceedsEps(RSub(mu_self, mu_other))
                     /\ ExceedsEps(RSub(sigma2_other, sigma2_self))
    IN  IF self.node_id # other.node_id THEN FALSE
        ELSE Rule(ForwardGetQuantile(self.distribution, alpha),
                  ForwardGetQuantile(other.distribution, alpha),
                  self.mean_cache, other.mean_cache,
                  self.variance_cache, other.variance_cache)

\* A reverse dominance that asks only for no objective to be worse
ReverseDominatesWeakNotWorse(self, other, alpha) ==
    /\ self.node_id = other.node_id
    /\ ~ExceedsEps(RSub(ReverseGetQuantile(other.distribution, RSub(R(1), alpha)),
                        ReverseGetQuantile(self.distribution, RSub(R(1), alpha))))
    /\ ~ExceedsEps(RSub(other.mean_cache, self.mean_cache))
    /\ ~ExceedsEps(RSub(self.variance_cache, other.variance_cache))

\* A reverse dominance decided by the quantile alone
ReverseDominatesWeakPrimaryOnly(self, other, alpha) ==
    /\ self.node_id = other.node_id
    /\ ExceedsEps(RSub(ReverseGetQuantile(self.distribution, RSub(R(1), alpha)),
                       ReverseGetQuantile(other.distribution, RSub(R(1), alpha))))

\* ReverseLabel.dominates_weak
ReverseDominatesWeak(self, other, alpha) ==
    LET Rule(Q_self, Q_other, mu_self, mu_other, sigma2_self, sigma2_other) ==
            LET mu_ok == ~ExceedsEps(RSub(mu_other, mu_self))
                sigma_ok == ~ExceedsEps(RSub(sigma2_self, sigma2_other))
                mu_better == ExceedsEps(RSub(mu_self, mu_other))
                sigma_better == ExceedsEps(RSub(sigma2_other, sigma2_self))
            IN  \/ (ExceedsEps(RSub(Q_self, Q_other)) /\ mu_ok /\ sigma_ok)
                \/ /\ ~ExceedsEps(RSub(Q_other, Q_self))
                   /\ (mu_better \/ sigma_better)
                   /\ mu_ok /\ sigma_ok
    IN  IF self.node_id # other.node_id THEN FALSE
        ELSE Rule(ReverseGetQuantile(self.distribution, RSub(R(1), alpha)),
                  ReverseGetQuantile(other.distribution, RSub(R(1), alpha)),
                  self.mean_cache, other.mean_cache,
                  self.variance_cache, other.variance_cache)

\* The solver's dominance test, by search direction
DominatesWeak(mode, self, other, alpha) ==
    IF mode = "forward" THEN ForwardDominatesWeak(self, other, alpha)
    ELSE ReverseDominatesWeak(self, other, alpha)

\* An _is_dominated that lets every label pass
IsDominatedNever(mode, label, existing_labels, alpha, max_labels_per_node) == FALSE

\* An _is_dominated for which one dominator is always enough
IsDominatedByAny(mode, label, existing_labels, alpha, max_labels_per_node) ==
    \E i \in 1..Len(existing_labels) :
        DominatesWeak(mode, existing_labels[i], label, alpha)

\* _is_dominated (the two solvers' methods are the same text)
IsDominated(mode, label, existing_labels, alpha, max_labels_per_node) ==
    LET Rule(dominators) ==
            IF Len(existing_labels) < max_labels_per_node
            THEN Cardinality(dominators) >= 2
            ELSE dominators # {}
    IN  Rule({i \in 1..Len(existing_labels) :
                DominatesWeak(mode, existing_labels[i], label, alpha)})

\* ForwardLabelSettingSolver._prune_labels
ForwardPruneLabels(labels, alpha, max_labels_per_node) ==
    IF Len(labels) <= max_labels_per_node THEN labels
    ELSE LET label_score == Arr([i \in 1..Len(labels) |->
                               <<ForwardGetQuantile(labels[i].distribution, alpha),
                                 labels[i].mean_cache, labels[i].variance_cache>>])
             sorted_labels == SortIdx(label_score, FALSE)
         IN  Arr([i \in 1..max_labels_per_node |-> labels[sorted_labels[i]]])

\* ReverseLabelSettingSolver._prune_labels
ReversePruneLabels(labels, alpha, max_labels_per_node) ==
    IF Len(labels) <= max_labels_per_node THEN labels
    ELSE LET label_score == Arr([i \in 1..Len(labels) |->
                               <<ReverseGetQuantile(labels[i].distribution,
                                                    RSub(R(1), alpha)),
                                 labels[i].mean_cache,
                                 RNeg(labels[i].variance_cache)>>])
             sorted_labels == SortIdx(label_score, TRUE)
         IN  Arr([i \in 1..max_labels_per_node |-> labels[sorted_labels[i]]])

(***************************************************************************)
(* The open queue: heapq over labels ordered by __lt__.                    *)
(***************************************************************************)
\* ForwardLabel.__lt__ / ReverseLabel.__lt__
LabelLt(mode, a, b) ==
    IF mode = "forward" THEN RLt(a.cost, b.cost) ELSE RLt(b.cost, a.cost)

\* heapq._siftdown(heap, startpos, pos) carrying newitem; positions from 1
RECURSIVE SiftDown(_, _, _, _, _)
SiftDown(mode, heap, startpos, pos, newitem) ==
    IF pos > startpos /\ LabelLt(mode, newitem, heap[pos \div 2])
    THEN SiftDown(mode, [heap EXCEPT ![pos] = heap[pos \div 2]],
                  startpos, pos \div 2, newitem)
    ELSE [heap EXCEPT ![pos] = newitem]

\* heapq._siftup(heap, pos): bubble the smaller child up to a leaf, then
\* sift newitem down from there
RECURSIVE SiftUp(_, _, _, _, _)
SiftUp(mode, heap, startpos, pos, newitem) ==
    LET endpos == Len(heap)
        childpos == 2 * pos
        rightpos == childpos + 1
        c == IF rightpos <= endpos /\ ~LabelLt(mode, heap[childpos], heap[rightpos])
             THEN rightpos ELSE childpos
    IN  IF childpos <= endpos
        THEN SiftUp(mode, [heap EXCEPT ![pos] = heap[c]], startpos, c, newitem)
        ELSE SiftDown(mode, heap, startpos, pos, newitem)

\* heapq.heappush
HeapPush(mode, heap, item) ==
    SiftDown(mode, Append(heap, item), 1, Len(heap) + 1, item)

\* heapq.heappop: the popped item and the heap left
HeapPop(mode, heap) ==
    LET lastelt == heap[Len(heap)]
        rest == SubSeq(heap, 1, Len(heap) - 1)
    IN  IF rest = <<>> THEN [item |-> lastelt, heap |-> <<>>]
        ELSE [item |-> rest[1], heap |-> SiftUp(mode, rest, 1, 1, lastelt)]

(***************************************************************************)
(* One expansion step of solve_k_paths.                                    *)
(***************************************************************************)
\* self.adj_list[node] (forward) and self.reverse_adj_list[node] (reverse), as
\* _build_adjacency_lists fills them from the edge set in its iteration order
RECURSIVE Neighbours(_, _, _)
Neighbours(mode, edges, node) ==
    IF edges = <<>> THEN <<>>
    ELSE LET e == edges[1]
             rest == Neighbours(mode, Tail(edges), node)
         IN  IF mode = "forward" /\ e[1] = node THEN <<e[2]>> \o rest
             ELSE IF mode = "reverse" /\ e[2] = node THEN <<e[1]>> \o rest
             ELSE rest

\* The membership test `successor in current_label.path` left out
InPathNever(node, path) == FALSE

\* successor in current_label.path / predecessor in current_label.path
InPath(node, path) == \E i \in 1..Len(path) : path[i] = node

\* The convolution across the edge between current and neighbour, inside the
\* try block of the expansion loop
Convolve(mode, solver, dist, cache, current, neighbour) ==
    IF mode = "forward"
    THEN ForwardConvolve(dist, cache, solver.links, current, neighbour,
                         solver.T, solver.L2, solver.K)
    ELSE ReverseConvolve(dist, cache, solver.links, neighbour, current, solver.T)

\* A new_label whose path grows at the front
NewLabelPrepended(mode, neighbour, new_dist, current_label, alpha) ==
    IF mode = "forward"
    THEN ForwardLabel(neighbour, new_dist, <<neighbour>> \o current_label.path,
                      ForwardGetQuantile(new_dist, alpha))
    ELSE ReverseLabel(neighbour, new_dist, <<neighbour>> \o current_label.path,
                      ReverseGetQuantile(new_dist, RSub(R(1), alpha)))

\* new_label of the expansion loop
NewLabel(mode, neighbour, new_dist, current_label, alpha) ==
    IF mode = "forward"
    THEN ForwardLabel(neighbour, new_dist, Append(current_label.path, neighbour),
                      ForwardGetQuantile(new_dist, alpha))
    ELSE ReverseLabel(neighbour, new_dist, Append(current_label.path, neighbour),
                      ReverseGetQuantile(new_dist, RSub(R(1), alpha)))

\* A _prune_labels that never truncates
PruneLabelsKeepAll(mode, labels, alpha, max_labels_per_node) == labels

PruneLabels(mode, labels, alpha, max_labels_per_node) ==
    IF mode = "forward" THEN ForwardPruneLabels(labels, alpha, max_labels_per_node)
    ELSE ReversePruneLabels(labels, alpha, max_labels_per_node)

\* [old for old in node_labels[n] if not new_label.dominates_weak(old, alpha)]
RECURSIVE NotDominatedBy(_, _, _, _)
NotDominatedBy(mode, new_label, labels, alpha) ==
    IF labels = <<>> THEN <<>>
    ELSE (IF DominatesWeak(mode, new_label, labels[1], alpha)
          THEN <<>> ELSE <<labels[1]>>)
         \o NotDominatedBy(mode, new_label, Tail(labels), alpha)

\* The for loop over the neighbours of current_label, from the acc.i-th on.
\* acc = [i, open, tables, stats, cache] is the state the loop updates.
RECURSIVE ExpandLoop(_, _, _, _, _, _)
ExpandLoop(mode, solver, alpha, current_label, nbrs, acc) ==
    IF acc.i > Len(nbrs) THEN acc
    ELSE
    LET n == nbrs[acc.i]
        \* the sweep of node_labels[n], the insertion, the pruning and the push
        Insert(conv, new_label, stats1, kept) ==
            [i |-> acc.i + 1,
             open |-> HeapPush(mode, acc.open, new_label),
             tables |-> [acc.tables EXCEPT ![n] =
                           PruneLabels(mode, Append(kept, new_label), alpha,
                                       solver.max_labels_per_node)],
             stats |-> [stats1 EXCEPT !.labels_dominated =
                                         @ + (Len(acc.tables[n]) - Len(kept))],
             cache |-> conv.cache]
        Offer(conv, new_label, stats1) ==
            IF IsDominated(mode, new_label, acc.tables[n], alpha,
                           solver.max_labels_per_node)
            THEN [acc EXCEPT !.i = @ + 1, !.cache = conv.cache,
                             !.stats = [stats1 EXCEPT !.labels_dominated = @ + 1]]
            ELSE Insert(conv, new_label, stats1,
                        NotDominatedBy(mode, new_label, acc.tables[n], alpha))
        \* a failed convolution is skipped (except ValueError: continue)
        Convolved(conv) ==
            IF ~conv.ok THEN [acc EXCEPT !.i = @ + 1, !.cache = conv.cache]
            ELSE Offer(conv, NewLabel(mode, n, conv.dist, current_label, alpha),
                       [acc.stats EXCEPT !.convolutions = @ + 1,
                                         !.labels_generated = @ + 1])
    IN  ExpandLoop(mode, solver, alpha, current_label, nbrs,
                   IF InPath(n, current_label.path) THEN [acc EXCEPT !.i = @ + 1]
                   ELSE Convolved(Convolve(mode, solver, current_label.distribution,
                                           acc.cache, current_label.node_id, n)))

(***************************************************************************)
(* Solver instances: the network tables produced by the precomputation and *)
(* the solver's parameters.                                                *)
(***************************************************************************)
\* time_prob of _precompute_link_distributions: the relative frequency of each
\* travel time among the samples of one (u, v, slot), in order of first occurrence
RECURSIVE TimeProb(_, _)
TimeProb(samples, i) ==
    IF i > Len(samples) THEN <<>>
    ELSE IF \E k \in 1..(i - 1) : samples[k] = samples[i]
         THEN TimeProb(samples, i + 1)
         ELSE <<<<samples[i],
                  Frac(Cardinality({k \in 1..Len(samples) : samples[k] = samples[i]}),
                       Len(samples))>>>> \o TimeProb(samples, i + 1)

\* One entry of link_distributions
Link(u, v, slot, samples) ==
    [u |-> u, v |-> v, slot |-> slot,
     dist |-> LinkTimeDistribution(TimeProb(samples, 1))]

Solvers ==
    << [edges |-> << <<1, 2>>, <<1, 3>>, <<2, 4>>, <<3, 4>>, <<1, 4>>, <<2, 3>> >>,
        links |-> << Link(1, 2, 0, <<3, 5>>), Link(1, 2, 1, <<4>>),
                     Link(1, 3, 0, <<4>>), Link(2, 4, 0, <<2, 6>>),
                     Link(3, 4, 0, <<3>>), Link(3, 4, 1, <<1, 9>>),
                     Link(1, 4, 0, <<7, 9, 9, 9>>), Link(2, 3, 0, <<0>>) >>,
        T |-> 12, L1 |-> 2, L2 |-> 2, K |-> 3, max_labels_per_node |-> 2],
       [edges |-> << <<1, 2>>, <<2, 3>>, <<3, 1>>, <<3, 4>>, <<2, 1>>, <<4, 2>>,
                     <<1, 4>>, <<2, 4>> >>,
        links |-> << Link(1, 2, 0, <<2, 3, 7>>), Link(2, 3, 1, <<5>>),
                     Link(2, 3, 2, <<1, 2>>), Link(3, 1, 0, <<4, 4, 6>>),
                     Link(3, 4, 2, <<3>>), Link(2, 1, 0, <<2>>),
                     Link(4, 2, 1, <<6, 1>>), Link(1, 4, 0, <<12, 14>>),
                     Link(2, 4, 0, <<5, 9>>) >>,
        T |-> 3, L1 |-> 3, L2 |-> 1, K |-> 100, max_labels_per_node |-> 20],
       [edges |-> << <<1, 2>>, <<2, 4>>, <<1, 3>>, <<3, 4>>, <<1, 4>> >>,
        links |-> << Link(1, 2, 0, <<10>>), Link(2, 4, 12, <<5, 6, 6>>),
                     Link(3, 4, 0, <<2>>), Link(1, 4, 5, <<15, 17>>) >>,
        T |-> 24, L1 |-> 2, L2 |-> 3, K |-> 4, max_labels_per_node |-> 1],
       [edges |-> << <<1, 2>>, <<2, 4>>, <<1, 4>> >>,
        links |-> << Link(1, 2, 0, <<9, 3>>), Link(2, 4, 0, <<7, 1>>),
                     Link(1, 4, 0, <<5, 9>>) >>,
        T |-> 12, L1 |-> 3, L2 |-> 2, K |-> 3, max_labels_per_node |-> 2],
       [edges |-> << <<1, 2>>, <<2, 4>>, <<1, 4>> >>,
        links |-> << Link(1, 2, 0, <<1>>), Link(2, 4, 0, <<9, 1>>),
                     Link(1, 4, 0, <<8, 4, 7>>) >>,
        T |-> 12, L1 |-> 4, L2 |-> 3, K |-> 3, max_labels_per_node |-> 2],
       \* an edge whose two slots hold different travel times
       [edges |-> << <<1, 2>>, <<3, 1>> >>,
        links |-> << Link(1, 2, 8, <<5>>), Link(1, 2, 9, <<20>>),
                     Link(3, 1, 0, <<4, 6>>) >>,
        T |-> 12, L1 |-> 3, L2 |-> 2, K |-> 3, max_labels_per_node |-> 2],
       \* the single edge 1 -> 2 with travel time 10 at every slot
       [edges |-> << <<1, 2>> >>,
        links |-> << Link(1, 2, 0, <<10>>), Link(1, 2, 1, <<10>>),
                     Link(1, 2, 2, <<10>>) >>,
        T |-> 3, L1 |-> 3, L2 |-> 2, K |-> 3, max_labels_per_node |-> 2] >>

\* The solver instances called with every input below, and the single-edge
\* instance, called with the scenario's times
Networks == 1..(Len(Solvers) - 1)
SingleEdge == Len(Solvers)

Nodes == 1..NumNodes
Modes == {"forward", "reverse"}
\* departure_time (forward) or target_arrival_time (reverse)
Times == {4, 100}
ScenarioTimes == {0, 100}
Alphas == {Frac(1, 2), Frac(9, 10)}
Budgets == {0, 2, 3, MaxLabelBudget, 100}

(***************************************************************************)
(* State of one solve_k_paths call.                                        *)
(***************************************************************************)
VARIABLES
    cfg,          \* the call: solver instance, direction and arguments
    pc,           \* "loop": at the while test; "break": left by break;
                  \* "done": solve_k_paths returned; "raised": left by an
                  \* exception; "returned": solve() returned
    open_labels,  \* the heap
    node_labels,  \* node -> list of labels
    candidates,   \* destination_candidates / origin_candidates
    stats,        \* self.stats
    iteration,
    slot_cache,   \* the class attribute _slot_cache
    result        \* the dictionary returned

vars == <<cfg, pc, open_labels, node_labels, candidates, stats, iteration,
          slot_cache, result>>

Solver == Solvers[cfg.solver]
\* The root node and the terminal node of the search
RootNode == IF cfg.mode = "forward" THEN cfg.origin ELSE cfg.destination
\* A search whose terminal node lies outside the network
TerminalNodeNowhere == NumNodes + 1

TerminalNode == IF cfg.mode = "forward" THEN cfg.destination ELSE cfg.origin

\* init_label: L1 copies of the given time with uniform weights
InitLabel(mode, solver, node, time) ==
    IF mode = "forward"
    THEN ForwardLabel(node,
                      ForwardDiscreteDistribution(Arr([i \in 1..solver.L1 |-> R(time)]),
                                                  solver.L1, Uniform(solver.L1)),
                      <<node>>, R(time))
    ELSE ReverseLabel(node,
                      AlphaDiscreteDistribution(Arr([i \in 1..solver.L1 |-> R(time)]),
                                                solver.L1, <<>>, FALSE),
                      <<node>>, R(time))

\* open_labels, node_labels and self.stats as solve_k_paths initialises them
InitOpenLabels ==
    HeapPush(cfg.mode, <<>>, InitLabel(cfg.mode, Solver, RootNode, cfg.time))
InitNodeLabels ==
    [n \in Nodes |-> IF n = RootNode
                     THEN <<InitLabel(cfg.mode, Solver, RootNode, cfg.time)>>
                     ELSE <<>>]
InitStats ==
    [labels_generated |-> 1, labels_dominated |-> 0,
     labels_extended |-> 0, convolutions |-> 0]

\* solve_k_paths entered and initialised, at the first test of the while loop
Started ==
    /\ pc = "loop"
    /\ open_labels = InitOpenLabels
    /\ node_labels = InitNodeLabels
    /\ candidates = <<>>
    /\ stats = InitStats
    /\ iteration = 0
    /\ slot_cache = <<>>
    /\ result = [success |-> FALSE, pending |-> TRUE]

Init ==
    /\ cfg \in [solver : Networks, mode : Modes, origin : Nodes,
                destination : Nodes, time : Times, alpha : Alphas,
                K : 0..MaxK, max_labels : Budgets]
           \cup [solver : {SingleEdge}, mode : Modes, origin : Nodes,
                 destination : Nodes, time : ScenarioTimes, alpha : Alphas,
                 K : 0..MaxK, max_labels : Budgets]
    /\ Started

\* A while test that never lets the loop body run
LoopCondNever == FALSE

\* The while test
LoopCond == open_labels # <<>> /\ stats.labels_generated < cfg.max_labels

Popped == HeapPop(cfg.mode, open_labels)

Sqrt(x) == [sqrt_of |-> x]

\* np.median
NpMedian(values) ==
    LET n == Len(values)
        Middle(v) == IF n % 2 = 1 THEN v[(n + 1) \div 2]
                     ELSE RDiv(RAdd(v[n \div 2], v[n \div 2 + 1]), R(2))
        Sorted(idx) == Middle(Arr([i \in 1..n |-> values[idx[i]]]))
    IN  Sorted(SortIdx(Arr([i \in 1..n |-> <<values[i]>>]), FALSE))

ReverseSeq(s) == Arr([i \in 1..Len(s) |-> s[Len(s) + 1 - i]])

\* candidate_info of the forward solver
ForwardCandidateInfo(label, iter, alpha, departure_time) ==
    LET Info(earliest_arrival) ==
            [iteration |-> iter,
             path |-> label.path,
             distribution |-> [values |-> label.distribution.values,
                               weights |-> label.distribution.weights,
                               L1 |-> label.distribution.L1],
             earliest_arrival |-> earliest_arrival,
             expected_arrival |-> label.mean_cache,
             median_arrival |-> ForwardGetQuantile(label.distribution, Frac(1, 2)),
             std_arrival |-> Sqrt(label.variance_cache),
             variance |-> label.variance_cache,
             travel_time |-> RSub(earliest_arrival, R(departure_time)),
             label |-> label, alpha |-> alpha, rank |-> 0, is_best |-> FALSE]
    IN  Info(ForwardGetQuantile(label.distribution, alpha))

\* candidate_info of the reverse solver with the search path left unreversed
ReverseCandidateInfoUnreversed(label, iter, alpha) ==
    [iteration |-> iter,
     path |-> label.path,
     distribution |-> label.distribution,
     latest_departure |-> ReverseGetQuantile(label.distribution, RSub(R(1), alpha)),
     expected_departure |-> label.mean_cache,
     median_departure |-> NpMedian(label.distribution.values),
     std_departure |-> Sqrt(label.variance_cache),
     variance |-> label.variance_cache,
     label |-> label, alpha |-> alpha, rank |-> 0, is_best |-> FALSE]

\* candidate_info of the reverse solver
ReverseCandidateInfo(label, iter, alpha) ==
    [iteration |-> iter,
     path |-> ReverseSeq(label.path),
     distribution |-> label.distribution,
     latest_departure |-> ReverseGetQuantile(label.distribution, RSub(R(1), alpha)),
     expected_departure |-> label.mean_cache,
     median_departure |-> NpMedian(label.distribution.values),
     std_departure |-> Sqrt(label.variance_cache),
     variance |-> label.variance_cache,
     label |-> label, alpha |-> alpha, rank |-> 0, is_best |-> FALSE]

\* The terminal branch stopping as soon as K candidates are recorded
RecordCandidateStopAtK ==
    /\ pc = "loop" /\ LoopCond
    /\ Popped.item.node_id = TerminalNode
    /\ iteration' = iteration + 1
    /\ open_labels' = Popped.heap
    /\ candidates' = Append(candidates,
            IF cfg.mode = "forward"
            THEN ForwardCandidateInfo(Popped.item, iteration + 1, cfg.alpha, cfg.time)
            ELSE ReverseCandidateInfo(Popped.item, iteration + 1, cfg.alpha))
    /\ pc' = IF Len(candidates) + 1 >= cfg.K THEN "break" ELSE "loop"
    /\ UNCHANGED <<cfg, node_labels, stats, slot_cache, result>>

\* Loop body, terminal branch: the popped label is at the terminal node
RecordCandidate ==
    /\ pc = "loop" /\ LoopCond
    /\ Popped.item.node_id = TerminalNode
    /\ iteration' = iteration + 1
    /\ open_labels' = Popped.heap
    /\ candidates' = Append(candidates,
            IF cfg.mode = "forward"
            THEN ForwardCandidateInfo(Popped.item, iteration + 1, cfg.alpha, cfg.time)
            ELSE ReverseCandidateInfo(Popped.item, iteration + 1, cfg.alpha))
    /\ pc' = IF Len(candidates) + 1 >= cfg.K /\ Len(candidates) + 1 >= cfg.K * 2
             THEN "break" ELSE "loop"
    /\ UNCHANGED <<cfg, node_labels, stats, slot_cache, result>>

\* A pruning branch that also drops a popped label missing from its table
DiscardDominatedOrRemoved ==
    /\ pc = "loop" /\ LoopCond
    /\ Popped.item.node_id # TerminalNode
    /\ \/ IsDominated(cfg.mode, Popped.item, node_labels[Popped.item.node_id],
                      cfg.alpha, Solver.max_labels_per_node)
       \/ \A i \in 1..Len(node_labels[Popped.item.node_id]) :
             node_labels[Popped.item.node_id][i] # Popped.item
    /\ iteration' = iteration + 1
    /\ open_labels' = Popped.heap
    /\ stats' = [stats EXCEPT !.labels_dominated = @ + 1]
    /\ UNCHANGED <<cfg, pc, node_labels, candidates, slot_cache, result>>

\* Loop body, pruning branch: the popped label is dominated at its node
DiscardDominated ==
    /\ pc = "loop" /\ LoopCond
    /\ Popped.item.node_id # TerminalNode
    /\ IsDominated(cfg.mode, Popped.item, node_labels[Popped.item.node_id],
                   cfg.alpha, Solver.max_labels_per_node)
    /\ iteration' = iteration + 1
    /\ open_labels' = Popped.heap
    /\ stats' = [stats EXCEPT !.labels_dominated = @ + 1]
    /\ UNCHANGED <<cfg, pc, node_labels, candidates, slot_cache, result>>

\* Loop body, expansion branch
Expand ==
    /\ pc = "loop" /\ LoopCond
    /\ Popped.item.node_id # TerminalNode
    /\ ~IsDominated(cfg.mode, Popped.item, node_labels[Popped.item.node_id],
                    cfg.alpha, Solver.max_labels_per_node)
    /\ iteration' = iteration + 1
    /\ \E acc \in {ExpandLoop(cfg.mode, Solver, cfg.alpha, Popped.item,
                             Neighbours(cfg.mode, Solver.edges, Popped.item.node_id),
                             [i |-> 1, open |-> Popped.heap, tables |-> node_labels,
                              stats |-> [stats EXCEPT !.labels_extended = @ + 1],
                              cache |-> slot_cache])} :
           /\ open_labels' = acc.open
           /\ node_labels' = acc.tables
           /\ stats' = acc.stats
           /\ slot_cache' = acc.cache
    /\ UNCHANGED <<cfg, pc, candidates, result>>

LoopEnded == pc = "break" \/ (pc = "loop" /\ ~LoopCond)

\* The failure return without the iteration count and the statistics
ReturnFailureBare ==
    /\ LoopEnded
    /\ candidates = <<>>
    /\ result' = [success |-> FALSE, num_candidates |-> 0]
    /\ pc' = "done"
    /\ UNCHANGED <<cfg, open_labels, node_labels, candidates, stats, iteration,
                   slot_cache>>

\* if not destination_candidates: return {'success': False, ...}
ReturnFailure ==
    /\ LoopEnded
    /\ candidates = <<>>
    /\ result' = [success |-> FALSE, total_time |-> "elapsed",
                  iterations |-> iteration, stats |-> stats, num_candidates |-> 0]
    /\ pc' = "done"
    /\ UNCHANGED <<cfg, open_labels, node_labels, candidates, stats, iteration,
                   slot_cache>>

\* rank_score of the forward solver
ForwardRankScore(candidate) ==
    <<candidate.earliest_arrival, candidate.expected_arrival, candidate.variance>>

\* rank_score of the reverse solver
ReverseRankScore(candidate) ==
    <<candidate.latest_departure, candidate.expected_departure,
      RNeg(candidate.variance)>>

\* sorted_candidates with the two directions of the sort exchanged
SortedCandidatesFlipped(mode, cands) ==
    LET order == IF mode = "forward"
                 THEN SortIdx(Arr([i \in 1..Len(cands) |-> ForwardRankScore(cands[i])]), TRUE)
                 ELSE SortIdx(Arr([i \in 1..Len(cands) |-> ReverseRankScore(cands[i])]), FALSE)
    IN  Arr([rank \in 1..Len(cands) |->
            [cands[order[rank]] EXCEPT !.rank = rank, !.is_best = (rank = 1)]])

\* sorted_candidates with rank and is_best set
SortedCandidates(mode, cands) ==
    LET order == IF mode = "forward"
                 THEN SortIdx(Arr([i \in 1..Len(cands) |-> ForwardRankScore(cands[i])]), FALSE)
                 ELSE SortIdx(Arr([i \in 1..Len(cands) |-> ReverseRankScore(cands[i])]), TRUE)
    IN  Arr([rank \in 1..Len(cands) |->
            [cands[order[rank]] EXCEPT !.rank = rank, !.is_best = (rank = 1)]])

\* The slice [:K] left out: every candidate is returned
TopKAll(sorted_candidates, K) == sorted_candidates

\* sorted_candidates[:K]
TopK(sorted_candidates, K) ==
    SubSeq(sorted_candidates, 1, IF K < Len(sorted_candidates) THEN K
                                 ELSE Len(sorted_candidates))

\* The result dictionary of a successful forward solve
ForwardResult(c, sorted_candidates, iter, st) ==
    LET top_k_candidates == TopK(sorted_candidates, c.K)
        best_candidate == top_k_candidates[1]
    IN  [success |-> TRUE,
         path |-> best_candidate.path,
         earliest_arrival_time |-> best_candidate.earliest_arrival,
         expected_arrival_time |-> best_candidate.expected_arrival,
         median_arrival_time |-> best_candidate.median_arrival,
         std_arrival_time |-> best_candidate.std_arrival,
         travel_time |-> best_candidate.travel_time,
         distribution |-> best_candidate.distribution,
         departure_time |-> c.time,
         top_k_candidates |-> top_k_candidates,
         num_candidates |-> Len(sorted_candidates),
         all_candidates |-> sorted_candidates,
         total_time |-> "elapsed", iterations |-> iter, alpha |-> c.alpha,
         K |-> c.K, origin |-> c.origin, destination |-> c.destination,
         stats |-> st]

\* The reverse result with reserved_time computed from the expected departure
ReverseResultFromMean(c, sorted_candidates, iter, st) ==
    LET top_k_candidates == TopK(sorted_candidates, c.K)
        best_candidate == top_k_candidates[1]
    IN  [success |-> TRUE,
         path |-> best_candidate.path,
         latest_departure_time |-> best_candidate.latest_departure,
         expected_departure_time |-> best_candidate.expected_departure,
         median_departure_time |-> best_candidate.median_departure,
         std_departure_time |-> best_candidate.std_departure,
         reserved_time |-> RSub(R(c.time), best_candidate.expected_departure),
         distribution |-> best_candidate.distribution,
         top_k_candidates |-> top_k_candidates,
         num_candidates |-> Len(sorted_candidates),
         all_candidates |-> sorted_candidates,
         total_time |-> "elapsed", iterations |-> iter, alpha |-> c.alpha,
         K |-> c.K, origin |-> c.origin, destination |-> c.destination,
         target_arrival_time |-> c.time,
         stats |-> st]

\* The result dictionary of a successful reverse solve
ReverseResult(c, sorted_candidates, iter, st) ==
    LET top_k_candidates == TopK(sorted_candidates, c.K)
        best_candidate == top_k_candidates[1]
    IN  [success |-> TRUE,
         path |-> best_candidate.path,
         latest_departure_time |-> best_candidate.latest_departure,
         expected_departure_time |-> best_candidate.expected_departure,
         median_departure_time |-> best_candidate.median_departure,
         std_departure_time |-> best_candidate.std_departure,
         reserved_time |-> RSub(R(c.time), best_candidate.latest_departure),
         distribution |-> best_candidate.distribution,
         top_k_candidates |-> top_k_candidates,
         num_candidates |-> Len(sorted_candidates),
         all_candidates |-> sorted_candidates,
         total_time |-> "elapsed", iterations |-> iter, alpha |-> c.alpha,
         K |-> c.K, origin |-> c.origin, destination |-> c.destination,
         target_arrival_time |-> c.time,
         stats |-> st]

\* Ranking and the successful return
ReturnSuccess ==
    /\ LoopEnded
    /\ candidates # <<>>
    /\ TopK(SortedCandidates(cfg.mode, candidates), cfg.K) # <<>>
    /\ LET sorted_candidates == SortedCandidates(cfg.mode, candidates)
       IN  result' = IF cfg.mode = "forward"
                     THEN ForwardResult(cfg, sorted_candidates, iteration, stats)
                     ELSE ReverseResult(cfg, sorted_candidates, iteration, stats)
    /\ pc' = "done"
    /\ UNCHANGED <<cfg, open_labels, node_labels, candidates, stats, iteration,
                   slot_cache>>

\* best_candidate = top_k_candidates[0] on an empty top_k_candidates (K = 0):
\* IndexError leaves solve_k_paths without a result
RaiseIndexError ==
    /\ LoopEnded
    /\ candidates # <<>>
    /\ TopK(SortedCandidates(cfg.mode, candidates), cfg.K) = <<>>
    /\ pc' = "raised"
    /\ UNCHANGED <<cfg, open_labels, node_labels, candidates, stats, iteration,
                   slot_cache, result>>

Next ==
    \/ RecordCandidate
    \/ DiscardDominated
    \/ Expand
    \/ ReturnFailure
    \/ ReturnSuccess
    \/ RaiseIndexError

Spec == Init /\ [][Next]_vars

(***************************************************************************)
(* The single-path entry point solve(), which delegates to solve_k_paths.  *)
(***************************************************************************)
\* K of the reverse solve() when the caller passes none
DefaultReverseK == 5

\* dict.pop(key, None)
Pop(d, key) == [k \in DOMAIN d \ {key} |-> d[k]]

\* The K that solve() passes to solve_k_paths: the forward solve() always
\* passes 1, the reverse solve() its own K argument (K_arg, <<>> when the
\* caller leaves it out)
SolveK(mode, K_arg) ==
    IF mode = "forward" THEN 1
    ELSE IF K_arg = <<>> THEN DefaultReverseK ELSE K_arg[1]

\* A forward solve() that returns the dictionary of solve_k_paths as it is
ForwardSolvePostKeep(res) == res

\* What the forward solve() does to the dictionary solve_k_paths returned
ForwardSolvePost(res) ==
    IF res.success
    THEN Pop(Pop(Pop(Pop(res, "top_k_candidates"), "all_candidates"),
                 "num_candidates"), "K")
    ELSE res

\* What the reverse solve() does to the dictionary solve_k_paths returned
ReverseSolvePost(res, save_all_paths) ==
    IF save_all_paths /\ "all_candidates" \in DOMAIN res
    THEN ("num_candidate_paths" :> res.num_candidates)
         @@ ("all_paths" :> res.all_candidates) @@ res
    ELSE res

\* The budgets a solve() call is made with
SolveBudgets == {3, 100}

\* solve() just after its call of solve_k_paths was initialised
SolveInit ==
    /\ cfg \in {[solver |-> s, mode |-> m, origin |-> o, destination |-> d,
                  time |-> t, alpha |-> a, K |-> SolveK(m, ka), max_labels |-> b,
                  K_arg |-> ka, save_all_paths |-> sp] :
                    s \in Networks, m \in Modes, o \in Nodes, d \in Nodes,
                    t \in Times, a \in Alphas, b \in SolveBudgets,
                    ka \in {<<>>} \cup {<<k>> : k \in 1..MaxK},
                    sp \in BOOLEAN}
    /\ cfg.mode = "forward" => (cfg.K_arg = <<>> /\ cfg.save_all_paths)
    /\ Started

\* solve() after solve_k_paths returned: the post-processing and the return
SolveReturn ==
    /\ pc = "done"
    /\ result' = IF cfg.mode = "forward" THEN ForwardSolvePost(result)
                 ELSE ReverseSolvePost(result, cfg.save_all_paths)
    /\ pc' = "returned"
    /\ UNCHANGED <<cfg, open_labels, node_labels, candidates, stats, iteration,
                   slot_cache>>

SolveNext ==
    \/ RecordCandidate
    \/ DiscardDominated
    \/ Expand
    \/ ReturnFailure
    \/ ReturnSuccess
    \/ SolveReturn

SolveSpec == SolveInit /\ [][SolveNext]_vars

(***************************************************************************)
(* solve_k_paths as a running call: the interpreter always takes the next  *)
(* step of the loop and of the code after it.                              *)
(***************************************************************************)
\* The call is still running: exactly then one of the actions of Next is
\* enabled (the loop body while LoopCond holds, a return or the raise once
\* the loop has ended)
Running == pc \notin {"done", "raised"}

\* A step of the running call as the program counter and the iteration
\* count show it: every step of Next is one, since the loop body adds 1 to
\* iteration and the code after the loop changes pc
Advance ==
    /\ Running
    /\ pc' \in {"loop", "break", "done", "raised"}
    /\ iteration' \in {iteration, iteration + 1}

FairSpec == Spec /\ WF_<<pc, iteration>>(Advance)

(***************************************************************************)
(* A second call of solve_k_paths with the inputs of a first one: on the   *)
(* same solver instance in the same process (the class attribute           *)
(* _slot_cache keeps what the first call stored), or in a new process      *)
(* (no _slot_cache yet).  cfg.previous holds what the first call returned. *)
(***************************************************************************)
RepeatBudgets == {3, 100}

RepeatInit ==
    /\ cfg \in {[solver |-> s, mode |-> m, origin |-> o, destination |-> d,
                  time |-> t, alpha |-> a, K |-> k, max_labels |-> b,
                  run |-> "first", previous |-> <<>>] :
                    s \in Networks, m \in Modes, o \in Nodes, d \in Nodes,
                    t \in Times, a \in Alphas, k \in 0..MaxK, b \in RepeatBudgets}
    /\ Started

\* The per-call initialisation of solve_k_paths, which leaves _slot_cache alone
Reinitialised ==
    /\ pc' = "loop"
    /\ open_labels' = InitOpenLabels
    /\ node_labels' = InitNodeLabels
    /\ candidates' = <<>>
    /\ stats' = InitStats
    /\ iteration' = 0
    /\ result' = [success |-> FALSE, pending |-> TRUE]

\* A second call that goes on with the statistics of the first
CallAgainKeepStats ==
    /\ pc = "done" /\ cfg.run = "first"
    /\ cfg' = [cfg EXCEPT !.run = "again", !.previous = <<result>>]
    /\ pc' = "loop"
    /\ open_labels' = InitOpenLabels
    /\ node_labels' = InitNodeLabels
    /\ candidates' = <<>>
    /\ iteration' = 0
    /\ result' = [success |-> FALSE, pending |-> TRUE]
    /\ UNCHANGED <<stats, slot_cache>>

\* The same call once more on the same solver instance
CallAgain ==
    /\ pc = "done" /\ cfg.run = "first"
    /\ cfg' = [cfg EXCEPT !.run = "again", !.previous = <<result>>]
    /\ Reinitialised
    /\ UNCHANGED slot_cache

\* The same call in a new process
CallFresh ==
    /\ pc = "done" /\ cfg.run = "first"
    /\ cfg' = [cfg EXCEPT !.run = "fresh", !.previous = <<result>>]
    /\ Reinitialised
    /\ slot_cache' = <<>>

RepeatNext ==
    \/ RecordCandidate
    \/ DiscardDominated
    \/ Expand
    \/ ReturnFailure
    \/ ReturnSuccess
    \/ RaiseIndexError
    \/ CallAgain
    \/ CallFresh

RepeatSpec == RepeatInit /\ [][RepeatNext]_vars

(***************************************************************************)
(* Solves by two solver instances over different link tables in one        *)
(* process: solve_k_paths on a first instance, then the same call on a     *)
(* second instance with the class attribute _slot_cache as the first left  *)
(* it, then the call on the second instance in a new process.              *)
(* cfg.previous holds what the second instance returned after the first.   *)
(***************************************************************************)
\* <<first instance, second instance>>
SequencePairs == {<<4, 3>>, <<1, 3>>, <<3, 4>>, <<2, 1>>}

SequenceInit ==
    /\ cfg \in {[solver |-> p[1], then_solver |-> p[2], mode |-> m, origin |-> o,
                  destination |-> d, time |-> t, alpha |-> Frac(1, 2), K |-> k,
                  max_labels |-> 100, run |-> "other", previous |-> <<>>] :
                    p \in SequencePairs, m \in Modes, o \in Nodes, d \in Nodes,
                    t \in Times, k \in 0..MaxK}
    /\ Started

\* The call on the second instance, _slot_cache kept
CallOnOther ==
    /\ pc = "done" /\ cfg.run = "other"
    /\ cfg' = [cfg EXCEPT !.solver = cfg.then_solver, !.run = "after"]
    /\ pc' = "loop"
    /\ \E init_label \in {InitLabel(cfg.mode, Solvers[cfg.then_solver], RootNode,
                                     cfg.time)} :
          /\ open_labels' = HeapPush(cfg.mode, <<>>, init_label)
          /\ node_labels' = [n \in Nodes |-> IF n = RootNode THEN <<init_label>>
                                              ELSE <<>>]
    /\ candidates' = <<>>
    /\ stats' = InitStats
    /\ iteration' = 0
    /\ result' = [success |-> FALSE, pending |-> TRUE]
    /\ UNCHANGED slot_cache

\* The call on the second instance in a new process
CallInNewProcess ==
    /\ pc = "done" /\ cfg.run = "after"
    /\ cfg' = [cfg EXCEPT !.run = "fresh", !.previous = <<result>>]
    /\ Reinitialised
    /\ slot_cache' = <<>>

SequenceNext ==
    \/ RecordCandidate
    \/ DiscardDominated
    \/ Expand
    \/ ReturnFailure
    \/ ReturnSuccess
    \/ RaiseIndexError
    \/ CallOnOther
    \/ CallInNewProcess

SequenceSpec == SequenceInit /\ [][SequenceNext]_vars

(***************************************************************************)
(* Single calls of the distribution constructors and of dominates_weak.    *)
(* cfg is the call with its arguments, result what it returns; the         *)
(* variables of the search are not used.                                   *)
(***************************************************************************)
\* values and weights handed to a constructor
CallValues == {<<R(5)>>, <<R(3), R(7)>>, <<R(7), R(3)>>, <<R(1), R(2), R(3)>>}
CallWeights == {R(0), R(1), R(3), RNeg(R(1))}

\* Constructor calls: weights = None (has_weights FALSE) or one weight per value
ConstructorCalls ==
    {[call |-> c, values |-> v, L1 |-> l, weights |-> w, has_weights |-> TRUE] :
        c \in {"ForwardDiscreteDistribution", "AlphaDiscreteDistribution"},
        v \in CallValues, l \in 1..3,
        w \in UNION {[1..n -> CallWeights] : n \in 1..3}}
    \cup
    {[call |-> c, values |-> v, L1 |-> l, weights |-> <<>>, has_weights |-> FALSE] :
        c \in {"ForwardDiscreteDistribution", "AlphaDiscreteDistribution"},
        v \in CallValues, l \in 1..3}

\* The objective values of the labels compared: 0, epsilon, 2 epsilon
CallObjectives == {R(0), Frac(1, 1000000), Frac(2, 1000000)}

\* A label at `node` whose alpha-quantile, expected_value and variance_value
\* are q, mu and sigma2: dominates_weak reads the quantile from the
\* distribution and the other two from mean_cache and variance_cache
CallLabel(mode, node, q, mu, sigma2) ==
    [(IF mode = "forward"
      THEN ForwardLabel(node, ForwardDiscreteDistribution(<<q>>, 1, <<R(1)>>),
                        <<node>>, q)
      ELSE ReverseLabel(node, AlphaDiscreteDistribution(<<q>>, 1, <<>>, FALSE),
                        <<node>>, q))
     EXCEPT !.mean_cache = mu, !.variance_cache = sigma2]

\* self.dominates_weak(other, alpha) for two labels
DominanceCalls ==
    {[call |-> "dominates_weak", mode |-> m, alpha |-> a,
      self |-> CallLabel(m, 1, q1, mu1, s1), other |-> CallLabel(m, n2, q2, mu2, s2)] :
        m \in Modes, a \in Alphas, n2 \in 1..2,
        q1 \in CallObjectives, mu1 \in CallObjectives, s1 \in CallObjectives,
        q2 \in CallObjectives, mu2 \in CallObjectives, s2 \in CallObjectives}

\* dominates_weak along a chain of three labels at one node
ChainCalls ==
    {[call |-> "dominates_weak chain", mode |-> m, alpha |-> Frac(1, 2),
      a |-> CallLabel(m, 1, q1, mu1, s1), b |-> CallLabel(m, 1, q2, mu2, s2),
      c |-> CallLabel(m, 1, q3, mu3, s3)] :
        m \in Modes,
        q1 \in CallObjectives, mu1 \in CallObjectives, s1 \in CallObjectives,
        q2 \in CallObjectives, mu2 \in CallObjectives, s2 \in CallObjectives,
        q3 \in CallObjectives, mu3 \in CallObjectives, s3 \in CallObjectives}

\* The integer times and the values of time_intervals_per_day for which
\* the slot of a convolution is computed
SlotCallTimes == (0 - 25)..25
SlotCallDays == {3, 12}

\* slot_dep of forward_convolve and reverse_convolve for one time
SlotCalls ==
    {[call |-> "slot_dep", t_dep |-> t, time_intervals_per_day |-> T] :
        t \in SlotCallTimes, T \in SlotCallDays}

CallInit ==
    /\ cfg \in ConstructorCalls \cup DominanceCalls \cup SlotCalls
    /\ cfg.call \in {"ForwardDiscreteDistribution", "AlphaDiscreteDistribution"}
           => Len(cfg.weights) \in {0, Len(cfg.values)}
    /\ pc = "call"
    /\ result = [pending |-> TRUE]
    /\ open_labels = <<>> /\ node_labels = <<>> /\ candidates = <<>>
    /\ stats = InitStats /\ iteration = 0 /\ slot_cache = <<>>

\* ForwardDiscreteDistribution(values, L1, weights)
ConstructForward ==
    /\ pc = "call" /\ cfg.call = "ForwardDiscreteDistribution"
    /\ result' = ForwardDiscreteDistribution(
                     cfg.values, cfg.L1,
                     IF cfg.has_weights THEN cfg.weights ELSE Uniform(cfg.L1))
    /\ pc' = "returned"
    /\ UNCHANGED <<cfg, open_labels, node_labels, candidates, stats, iteration,
                   slot_cache>>

\* AlphaDiscreteDistribution(values, L1, weights)
ConstructReverse ==
    /\ pc = "call" /\ cfg.call = "AlphaDiscreteDistribution"
    /\ result' = AlphaDiscreteDistribution(cfg.values, cfg.L1, cfg.weights,
                                           cfg.has_weights)
    /\ pc' = "returned"
    /\ UNCHANGED <<cfg, open_labels, node_labels, candidates, stats, iteration,
                   slot_cache>>

\* dominates_weak called on the two labels in both orders and on self itself
CompareLabels ==
    /\ pc = "call" /\ cfg.call = "dominates_weak"
    /\ result' = [self_other |-> DominatesWeak(cfg.mode, cfg.self, cfg.other, cfg.alpha),
                  other_self |-> DominatesWeak(cfg.mode, cfg.other, cfg.self, cfg.alpha),
                  self_self |-> DominatesWeak(cfg.mode, cfg.self, cfg.self, cfg.alpha)]
    /\ pc' = "returned"
    /\ UNCHANGED <<cfg, open_labels, node_labels, candidates, stats, iteration,
                   slot_cache>>

\* a.dominates_weak(b), b.dominates_weak(c), a.dominates_weak(c) and
\* c.dominates_weak(a)
CompareChain ==
    /\ pc = "call" /\ cfg.call = "dominates_weak chain"
    /\ result' = [a_b |-> DominatesWeak(cfg.mode, cfg.a, cfg.b, cfg.alpha),
                  b_c |-> DominatesWeak(cfg.mode, cfg.b, cfg.c, cfg.alpha),
                  a_c |-> DominatesWeak(cfg.mode, cfg.a, cfg.c, cfg.alpha),
                  c_a |-> DominatesWeak(cfg.mode, cfg.c, cfg.a, cfg.alpha)]
    /\ pc' = "returned"
    /\ UNCHANGED <<cfg, open_labels, node_labels, candidates, stats, iteration,
                   slot_cache>>

\* slot_dep = int(t_dep / 10) % time_intervals_per_day
MapSlot ==
    /\ pc = "call" /\ cfg.call = "slot_dep"
    /\ result' = [slot_dep |-> SlotOf(R(cfg.t_dep), cfg.time_intervals_per_day)]
    /\ pc' = "returned"
    /\ UNCHANGED <<cfg, open_labels, node_labels, candidates, stats, iteration,
                   slot_cache>>

CallNext == ConstructForward \/ ConstructReverse \/ CompareLabels \/ MapSlot

CallSpec == CallInit /\ [][CallNext]_vars

ChainInit ==
    /\ cfg \in ChainCalls
    /\ pc = "call"
    /\ result = [pending |-> TRUE]
    /\ open_labels = <<>> /\ node_labels = <<>> /\ candidates = <<>>
    /\ stats = InitStats /\ iteration = 0 /\ slot_cache = <<>>

ChainSpec == ChainInit /\ [][CompareChain]_vars


(***************************************************************************)
(* Properties of the returned paths.                                       *)
(***************************************************************************)

\* C1: in every successful forward or reverse result the best path and every
\* path of top_k_candidates starts at origin and ends at destination; a
\* reverse candidate reports its search path (destination first) reversed.
C1_PathEndpoints ==
    (pc = "done" /\ result.success) =>
        /\ result.path[1] = cfg.origin
        /\ result.path[Len(result.path)] = cfg.destination
        /\ \A i \in 1..Len(result.top_k_candidates) :
              LET c == result.top_k_candidates[i]
              IN  /\ c.path[1] = cfg.origin
                  /\ c.path[Len(c.path)] = cfg.destination
                  /\ cfg.mode = "reverse" =>
                        /\ c.label.path[1] = cfg.destination
                        /\ Len(c.path) = Len(c.label.path)
                        /\ \A k \in 1..Len(c.path) :
                              c.path[k] = c.label.path[Len(c.path) + 1 - k]

\* A successful reverse result with two candidates whose best path has an
\* intermediate node
C1_Witness ==
    /\ pc = "done" /\ result.success /\ cfg.mode = "reverse"
    /\ Len(result.top_k_candidates) >= 2
    /\ Len(result.path) >= 3

\* C2: every label of a search (in the queue, in a node's table or recorded
\* as a candidate) carries a path in which no node occurs twice.
C2_SimplePaths ==
    LET Simple(p) == \A i, j \in 1..Len(p) : i # j => p[i] # p[j]
    IN  /\ \A i \in 1..Len(open_labels) : Simple(open_labels[i].path)
        /\ \A n \in Nodes : \A i \in 1..Len(node_labels[n]) :
              Simple(node_labels[n][i].path)
        /\ \A i \in 1..Len(candidates) :
              Simple(candidates[i].label.path) /\ Simple(candidates[i].path)

\* A tabled label with at least three nodes whose parent was expanded at a
\* node having a neighbour already on the parent's path
C2_Witness ==
    \E n \in Nodes : \E i \in 1..Len(node_labels[n]) :
        LET p == node_labels[n][i].path
            parent == p[Len(p) - 1]
            nbrs == Neighbours(cfg.mode, Solver.edges, parent)
        IN  /\ Len(p) >= 3
            /\ \E k \in 1..Len(nbrs) : \E m \in 1..(Len(p) - 2) : nbrs[k] = p[m]

(***************************************************************************)
(* Properties of the returned times.                                       *)
(***************************************************************************)

\* C3 (as stated): in every successful forward result earliest_arrival_time
\* is strictly greater than departure_time, for any origin and destination.
C3_ArrivalAfterDeparture ==
    (pc = "done" /\ result.success /\ cfg.mode = "forward") =>
        RLt(R(cfg.time), result.earliest_arrival_time)

\* C3 (amended): in every successful forward result earliest_arrival_time is
\* at least departure_time, and strictly greater when origin # destination
\* and every link travel time of the network is positive.
C3_ArrivalNotBeforeDeparture ==
    (pc = "done" /\ result.success /\ cfg.mode = "forward") =>
        /\ RLe(R(cfg.time), result.earliest_arrival_time)
        /\ \A i \in 1..Len(result.all_candidates) :
              RLe(R(cfg.time), result.all_candidates[i].earliest_arrival)
        /\ ( /\ cfg.origin # cfg.destination
             /\ \A i \in 1..Len(Solver.links) :
                   \A m \in 1..Len(Solver.links[i].dist.times) :
                       Solver.links[i].dist.times[m] > 0 )
           => RLt(R(cfg.time), result.earliest_arrival_time)

\* A successful forward result over at least two links of positive travel time
C3_Witness ==
    /\ pc = "done" /\ result.success /\ cfg.mode = "forward"
    /\ cfg.solver = 2 /\ Len(result.path) >= 3
    /\ RLt(R(cfg.time), result.earliest_arrival_time)

\* C4 (as stated): in every successful reverse result latest_departure_time
\* is strictly less than target_arrival_time and reserved_time is positive.
C4_DepartureBeforeTarget ==
    (pc = "done" /\ result.success /\ cfg.mode = "reverse") =>
        /\ RLt(result.latest_departure_time, R(cfg.time))
        /\ RLt(R(0), result.reserved_time)

\* C4 (amended): in every successful reverse result latest_departure_time is
\* at most target_arrival_time and reserved_time is not negative; both are
\* strict when origin # destination and every link travel time is positive.
C4_DepartureNotAfterTarget ==
    (pc = "done" /\ result.success /\ cfg.mode = "reverse") =>
        /\ RLe(result.latest_departure_time, R(cfg.time))
        /\ RLe(R(0), result.reserved_time)
        /\ \A i \in 1..Len(result.all_candidates) :
              RLe(result.all_candidates[i].latest_departure, R(cfg.time))
        /\ ( /\ cfg.origin # cfg.destination
             /\ \A i \in 1..Len(Solver.links) :
                   \A m \in 1..Len(Solver.links[i].dist.times) :
                       Solver.links[i].dist.times[m] > 0 )
           => /\ RLt(result.latest_departure_time, R(cfg.time))
              /\ RLt(R(0), result.reserved_time)

\* A successful reverse result over at least two links of positive travel time
C4_Witness ==
    /\ pc = "done" /\ result.success /\ cfg.mode = "reverse"
    /\ cfg.solver = 2 /\ Len(result.path) >= 3
    /\ RLt(R(0), result.reserved_time)

\* C5: in every successful reverse result reserved_time plus the returned
\* latest_departure_time is target_arrival_time, and the returned
\* latest_departure_time is the latest_departure of the rank-1 candidate.
C5_ReservedTime ==
    (pc = "done" /\ result.success /\ cfg.mode = "reverse") =>
        /\ RAdd(result.reserved_time, result.latest_departure_time) = R(cfg.time)
        /\ result.latest_departure_time = result.all_candidates[1].latest_departure
        /\ result.all_candidates[1].rank = 1

\* A successful reverse result with two candidates, a positive reserved time
\* and a best candidate whose expected departure is not its latest departure
C5_Witness ==
    /\ pc = "done" /\ result.success /\ cfg.mode = "reverse"
    /\ Len(result.all_candidates) >= 2
    /\ RLt(R(0), result.reserved_time)
    /\ result.expected_departure_time # result.latest_departure_time

(***************************************************************************)
(* Properties of the search loop and of the return.                        *)
(***************************************************************************)

\* C6 (as stated): a search ending without a candidate does not raise and
\* returns {success: false, message, stats}; success is true exactly when a
\* candidate was recorded.
C6_FailureWithMessage ==
    /\ pc # "raised"
    /\ pc = "done" =>
          /\ result.success <=> candidates # <<>>
          /\ candidates = <<>> =>
                /\ "message" \in DOMAIN result
                /\ "stats" \in DOMAIN result

\* C6 (amended): a search ending without a candidate never raises and
\* returns exactly the keys success = false, total_time, iterations, stats
\* and num_candidates = 0, with the statistics and the iteration count of the
\* search and no message; a returned result has success = true exactly when
\* a candidate was recorded; the one exit by exception is K = 0 with a
\* candidate recorded.
C6_StructuredFailure ==
    /\ pc = "raised" => (candidates # <<>> /\ cfg.K = 0)
    /\ pc = "done" =>
          /\ result.success <=> candidates # <<>>
          /\ candidates # <<>> => cfg.K >= 1
          /\ candidates = <<>> =>
                /\ DOMAIN result = {"success", "total_time", "iterations",
                                    "stats", "num_candidates"}
                /\ result.stats = stats
                /\ result.iterations = iteration
                /\ result.num_candidates = 0

\* A failure returned with labels still queued: the label budget ran out
\* after at least one expansion
C6_Witness ==
    /\ pc = "done" /\ candidates = <<>> /\ ~result.success
    /\ open_labels # <<>> /\ stats.labels_extended >= 1

\* C7: a label popped at the terminal node is appended to the candidates and
\* nothing is expanded for it (the queue only loses it, tables and statistics
\* are unchanged); for K >= 1 the loop goes on unless that was candidate
\* number 2K, the break is taken only with exactly 2K candidates and the
\* number of candidates never exceeds 2K; an expansion is never of a label
\* at the terminal node.
C7_TerminalLabels ==
    /\ [](cfg.K >= 1 => /\ Len(candidates) <= 2 * cfg.K
                        /\ pc = "break" => Len(candidates) = 2 * cfg.K)
    /\ [][ (pc = "loop" /\ LoopCond) =>
             /\ Popped.item.node_id = TerminalNode =>
                   /\ Len(candidates') = Len(candidates) + 1
                   /\ SubSeq(candidates', 1, Len(candidates)) = candidates
                   /\ candidates'[Len(candidates')].label = Popped.item
                   /\ open_labels' = Popped.heap
                   /\ node_labels' = node_labels
                   /\ stats' = stats
                   /\ cfg.K >= 1 =>
                         (pc' = IF Len(candidates') = 2 * cfg.K
                                THEN "break" ELSE "loop")
             /\ Popped.item.node_id # TerminalNode =>
                   candidates' = candidates ]_vars

\* The loop still running with K = 2 after two candidates were recorded
C7_Witness ==
    /\ cfg.K = 2 /\ Len(candidates) >= 2
    /\ pc = "loop" /\ LoopCond

\* C8 (as stated, for max_labels >= 1): labels_generated never exceeds
\* max_labels.
C8_HardCap ==
    cfg.max_labels >= 1 => stats.labels_generated <= cfg.max_labels

(***************************************************************************)
(* Properties of the ranking.                                              *)
(***************************************************************************)

\* C9: in a successful result (K >= 1) all_candidates holds each of the N
\* recorded candidates once, the candidate at position i has rank i and
\* is_best exactly when i = 1, top_k_candidates is the first min(K, N) of
\* them, and the top-level path, distribution and statistics are those of the
\* rank-1 candidate.
C9_RanksAndTopK ==
    (pc = "done" /\ result.success) =>
        LET all == result.all_candidates
            N == Len(candidates)
            best == all[1]
        IN  /\ cfg.K >= 1
            /\ Len(all) = N /\ result.num_candidates = N
            /\ \A j \in 1..N : \E i \in 1..N :
                  [all[i] EXCEPT !.rank = 0, !.is_best = FALSE] = candidates[j]
            /\ \A i \in 1..N : all[i].rank = i /\ (all[i].is_best <=> i = 1)
            /\ Len(result.top_k_candidates) = (IF cfg.K < N THEN cfg.K ELSE N)
            /\ \A i \in 1..Len(result.top_k_candidates) :
                  result.top_k_candidates[i] = all[i]
            /\ result.path = best.path
            /\ result.distribution = best.distribution
            /\ cfg.mode = "forward" =>
                  /\ result.earliest_arrival_time = best.earliest_arrival
                  /\ result.expected_arrival_time = best.expected_arrival
                  /\ result.median_arrival_time = best.median_arrival
                  /\ result.std_arrival_time = best.std_arrival
                  /\ result.travel_time = best.travel_time
            /\ cfg.mode = "reverse" =>
                  /\ result.latest_departure_time = best.latest_departure
                  /\ result.expected_departure_time = best.expected_departure
                  /\ result.median_departure_time = best.median_departure
                  /\ result.std_departure_time = best.std_departure

\* A successful result with more candidates than K, ranked in another order
\* than they were found
C9_Witness ==
    /\ pc = "done" /\ result.success
    /\ Len(result.all_candidates) > cfg.K
    /\ \E i \in 1..Len(candidates) : result.all_candidates[i] # 
          [candidates[i] EXCEPT !.rank = i, !.is_best = (i = 1)]

\* C10: for candidates a before b in the rank order, forward: a's
\* alpha-quantile arrival is at most b's, on a tie a's mean is at most b's and
\* on a tie of both a's variance is at most b's; reverse: a's
\* (1 - alpha)-quantile departure is at least b's, on a tie a's mean is at
\* least b's and on a tie of both a's variance is at most b's.
C10_RankOrder ==
    (pc = "done" /\ result.success) =>
        \A i, j \in 1..Len(result.all_candidates) :
            i < j =>
                LET a == result.all_candidates[i]
                    b == result.all_candidates[j]
                IN  IF cfg.mode = "forward"
                    THEN /\ RLe(a.earliest_arrival, b.earliest_arrival)
                         /\ a.earliest_arrival = b.earliest_arrival =>
                               /\ RLe(a.expected_arrival, b.expected_arrival)
                               /\ a.expected_arrival = b.expected_arrival =>
                                     RLe(a.variance, b.variance)
                    ELSE /\ RLe(b.latest_departure, a.latest_departure)
                         /\ a.latest_departure = b.latest_departure =>
                               /\ RLe(b.expected_departure, a.expected_departure)
                               /\ a.expected_departure = b.expected_departure =>
                                     RLe(a.variance, b.variance)

\* A reverse result whose first two candidates tie on the quantile and on the
\* mean and differ in variance
C10_Witness ==
    /\ pc = "done" /\ result.success /\ cfg.mode = "reverse"
    /\ Len(result.all_candidates) >= 2
    /\ LET a == result.all_candidates[1]
           b == result.all_candidates[2]
       IN  /\ a.latest_departure = b.latest_departure
           /\ a.expected_departure = b.expected_departure
           /\ RLt(a.variance, b.variance)


(***************************************************************************)
(* Properties of solve() and of the scenarios of the specification.        *)
(***************************************************************************)
\* The fields the forward solve() removes from a successful result
KPathFields == {"top_k_candidates", "all_candidates", "num_candidates", "K"}

\* C11 (as stated): solve() of either solver runs the search of
\* solve_k_paths with K = 1 and returns a successful result without the
\* K-path fields top_k_candidates, all_candidates, num_candidates and K.
C11_SolveIsKPathsOne ==
    pc = "returned" =>
        /\ cfg.K = 1
        /\ result.success => DOMAIN result \cap KPathFields = {}

\* C11 (amended): the forward solve() runs the search with K = 1 and returns
\* the successful result of solve_k_paths with exactly the four K-path
\* fields removed and every other field unchanged, and a failure unchanged;
\* the reverse solve() runs the search with its own K argument, 5 when none
\* is passed, removes nothing and, unless save_all_paths is false, adds to a
\* successful result all_paths = all_candidates and
\* num_candidate_paths = num_candidates.
C11_SolveDelegates ==
    /\ [](cfg.K = IF cfg.mode = "forward" THEN 1
                  ELSE IF cfg.K_arg = <<>> THEN 5 ELSE cfg.K_arg[1])
    /\ [][pc' = "returned" =>
            IF cfg.mode = "forward"
            THEN IF result.success
                 THEN /\ KPathFields \subseteq DOMAIN result
                      /\ DOMAIN result' = DOMAIN result \ KPathFields
                      /\ \A k \in DOMAIN result' : result'[k] = result[k]
                 ELSE result' = result
            ELSE /\ DOMAIN result \subseteq DOMAIN result'
                 /\ \A k \in DOMAIN result : result'[k] = result[k]
                 /\ IF cfg.save_all_paths /\ result.success
                    THEN /\ DOMAIN result' \ DOMAIN result =
                                {"all_paths", "num_candidate_paths"}
                         /\ result'.all_paths = result.all_candidates
                         /\ result'.num_candidate_paths = result.num_candidates
                    ELSE DOMAIN result' = DOMAIN result]_vars

\* A forward solve() that returned a stripped successful result after its
\* search went on past the first candidate
C11_Witness ==
    /\ pc = "returned" /\ cfg.mode = "forward" /\ result.success
    /\ Len(candidates) >= 2
    /\ "top_k_candidates" \notin DOMAIN result
    /\ "path" \in DOMAIN result

\* C12 (as stated): when origin = destination and K = 1, whatever the label
\* budget, a call that returns has recorded the root label in its first
\* iteration and returns success with path = [origin] and zero travel time.
C12_SameNodeAnyBudget ==
    (cfg.origin = cfg.destination /\ cfg.K = 1 /\ pc = "done") =>
        /\ result.success
        /\ result.iterations = 1
        /\ result.path = <<cfg.origin>>
        /\ IF cfg.mode = "forward"
           THEN result.earliest_arrival_time = R(cfg.time)
           ELSE result.reserved_time = R(0)

\* C12 (amended): when origin = destination, K = 1 and the label budget lets
\* the loop run once (max_labels >= 2), the root label is recorded as the
\* candidate of iteration 1 and nothing is ever expanded: the statistics and
\* the label tables stay as initialised, the call does not raise, and the
\* result is successful after one iteration with path = [origin], forward
\* earliest_arrival_time = departure_time and travel_time = 0, reverse
\* latest_departure_time = target_arrival_time and reserved_time = 0.
C12_SameNodeImmediate ==
    (cfg.origin = cfg.destination /\ cfg.K = 1 /\ cfg.max_labels >= 2) =>
        /\ stats = InitStats
        /\ node_labels = InitNodeLabels
        /\ pc # "raised"
        /\ \/ iteration = 0 /\ candidates = <<>> /\ pc = "loop"
           \/ /\ iteration = 1
              /\ open_labels = <<>>
              /\ Len(candidates) = 1
              /\ candidates[1].iteration = 1
              /\ candidates[1].path = <<cfg.origin>>
        /\ pc = "done" =>
              /\ result.success
              /\ result.path = <<cfg.origin>>
              /\ result.iterations = 1
              /\ result.num_candidates = 1
              /\ result.stats.labels_extended = 0
              /\ result.stats.convolutions = 0
              /\ IF cfg.mode = "forward"
                 THEN /\ result.earliest_arrival_time = R(cfg.time)
                      /\ result.travel_time = R(0)
                 ELSE /\ result.latest_departure_time = R(cfg.time)
                      /\ result.reserved_time = R(0)

\* A reverse call with origin = destination, K = 1 and the smallest budget
\* that lets the loop run has returned
C12_Witness ==
    /\ cfg.origin = cfg.destination /\ cfg.K = 1 /\ cfg.max_labels = 2
    /\ cfg.mode = "reverse"
    /\ pc = "done" /\ result.success /\ result.reserved_time = R(0)

\* The nodes that a walk along the edges from node `a` visits
C13_ReachableFrom(a) ==
    LET Step(S) == S \cup {Solver.edges[i][2] :
                            i \in {j \in 1..Len(Solver.edges) : Solver.edges[j][1] \in S}}
    IN  Step(Step(Step(Step({a}))))

\* The destination of the call cannot be reached from its origin
C13_Unreachable == cfg.destination \notin C13_ReachableFrom(cfg.origin)

\* C13 (as stated): when the destination is not reachable from the origin,
\* solve_k_paths eventually returns success: false with the open queue
\* exhausted, for any max_labels, and no candidate is ever recorded.
C13_EndsWithQueueExhausted ==
    /\ <>(C13_Unreachable => (pc = "done" /\ ~result.success /\ open_labels = <<>>))
    /\ [](C13_Unreachable => candidates = <<>>)

\* C13 (amended): when the destination is not reachable from the origin,
\* solve_k_paths eventually returns, for any max_labels and any K, success:
\* false with num_candidates = 0; no candidate is ever recorded and the call
\* never raises; at the return the open queue is exhausted or the label
\* budget is used up (labels_generated >= max_labels).
C13_UnreachableFails ==
    /\ <>(C13_Unreachable => pc = "done")
    /\ [](C13_Unreachable =>
            /\ candidates = <<>>
            /\ pc # "raised"
            /\ pc = "done" =>
                  /\ ~result.success
                  /\ result.num_candidates = 0
                  /\ open_labels = <<>> \/ stats.labels_generated >= cfg.max_labels)

\* A call with an unreachable destination that expanded labels, ran out of
\* its label budget and returned the failure with labels still in the queue
C13_Witness ==
    /\ C13_Unreachable
    /\ pc = "done" /\ ~result.success
    /\ result.iterations >= 1
    /\ result.stats.labels_extended >= 1
    /\ open_labels # <<>>

C16_RepeatedCallsAgree ==
    /\ cfg.run # "first" =>
          /\ pc = "done" => result = cfg.previous[1]
          /\ pc # "raised"
          /\ iteration = 0 =>
                /\ open_labels = InitOpenLabels /\ node_labels = InitNodeLabels
                /\ candidates = <<>> /\ stats = InitStats
    /\ (cfg.run # "first" /\ pc = "done" /\ result.success) =>
          /\ result.path = cfg.previous[1].path
          /\ result.top_k_candidates[1] = cfg.previous[1].top_k_candidates[1]
          /\ result.stats = cfg.previous[1].stats
          /\ result.iterations = cfg.previous[1].iterations

\* A second call on the same instance that started with the slot cache of the
\* first call, expanded labels and returned a path
C16_Witness ==
    /\ cfg.run = "again" /\ pc = "done"
    /\ slot_cache # <<>>
    /\ result.success
    /\ result.stats.convolutions >= 2
    /\ result = cfg.previous[1]

\* The labels of the open queue and of the per-node tables
C17_Labels ==
    {open_labels[i] : i \in 1..Len(open_labels)}
        \cup UNION {{node_labels[n][i] : i \in 1..Len(node_labels[n])} : n \in Nodes}

\* C17: every label in the open queue or in a node table carries a path
\* distribution of exactly L1 points, L1 being the cardinality the solver is
\* configured with: L1 values, L1 weights and the field L1 itself.
C17_ExactlyL1Points ==
    \A label \in C17_Labels :
        /\ Len(label.distribution.values) = Solver.L1
        /\ Len(label.distribution.weights) = Solver.L1
        /\ label.distribution.L1 = Solver.L1

\* C18: a constructed path distribution, forward or reverse, has weights
\* that sum to 1, and uniform weights when the given weights sum to <= 0.
C18_WeightsSumToOne ==
    (/\ pc = "returned"
     /\ cfg.call \in {"ForwardDiscreteDistribution", "AlphaDiscreteDistribution"}
     /\ result.ok) =>
        /\ RSum(result.weights) = R(1)
        /\ (cfg.has_weights /\ RLe(RSum(cfg.weights), R(0))) =>
              result.weights = Uniform(Len(cfg.values))

\* The objectives of a compared label: the quantile dominates_weak uses
\* (alpha forward, 1 - alpha reverse), the expected value and the variance
C19_Q(label) ==
    IF cfg.mode = "forward" THEN ForwardGetQuantile(label.distribution, cfg.alpha)
    ELSE ReverseGetQuantile(label.distribution, RSub(R(1), cfg.alpha))

C19_SameObjectives(a, b) ==
    /\ C19_Q(a) = C19_Q(b)
    /\ a.mean_cache = b.mean_cache
    /\ a.variance_cache = b.variance_cache

\* C19: dominates_weak of either solver is irreflexive (no label dominates
\* itself, nor a label at its node with the same quantile, mean and
\* variance), asymmetric (never both A over B and B over A) and false
\* between labels at different nodes.
C19_StrictOrderPerNode ==
    (pc = "returned" /\ cfg.call = "dominates_weak") =>
        /\ ~result.self_self
        /\ C19_SameObjectives(cfg.self, cfg.other) =>
              (~result.self_other /\ ~result.other_self)
        /\ ~(result.self_other /\ result.other_self)
        /\ cfg.self.node_id # cfg.other.node_id =>
              (~result.self_other /\ ~result.other_self)

\* A reverse comparison at one node in which self dominates other although
\* its quantile is the smaller one, within the tolerance
C19_Witness ==
    /\ pc = "returned" /\ cfg.call = "dominates_weak" /\ cfg.mode = "reverse"
    /\ cfg.self.node_id = cfg.other.node_id
    /\ RLt(C19_Q(cfg.self), C19_Q(cfg.other))
    /\ result.self_other /\ ~result.other_self

C20_Eps == Frac(1, 1000000)
C20_Less(x, y) == RLt(x, RSub(y, C20_Eps))
C20_Tied(x, y) == RLe(RSub(x, y), C20_Eps) /\ RLe(RSub(y, x), C20_Eps)

\* C20: for forward labels A and B at the same node, A dominates B exactly
\* when Q_A < Q_B - eps, or |Q_A - Q_B| <= eps and mean_A < mean_B - eps, or
\* the quantiles and the means are tied within eps and var_A < var_B - eps,
\* with eps = 1e-6 and Q the alpha-quantile.
C20_ForwardEpsLexicographic ==
    (/\ pc = "returned" /\ cfg.call = "dominates_weak" /\ cfg.mode = "forward"
     /\ cfg.self.node_id = cfg.other.node_id) =>
        LET Q_A == ForwardGetQuantile(cfg.self.distribution, cfg.alpha)
            Q_B == ForwardGetQuantile(cfg.other.distribution, cfg.alpha)
            mean_A == cfg.self.mean_cache
            mean_B == cfg.other.mean_cache
            var_A == cfg.self.variance_cache
            var_B == cfg.other.variance_cache
        IN  result.self_other <=>
                \/ C20_Less(Q_A, Q_B)
                \/ C20_Tied(Q_A, Q_B) /\ C20_Less(mean_A, mean_B)
                \/ C20_Tied(Q_A, Q_B) /\ C20_Tied(mean_A, mean_B)
                       /\ C20_Less(var_A, var_B)

\* A forward comparison decided by the variance: the quantiles differ by
\* exactly eps and count as tied, the means are equal
C20_Witness ==
    /\ pc = "returned" /\ cfg.call = "dominates_weak" /\ cfg.mode = "forward"
    /\ cfg.self.node_id = cfg.other.node_id
    /\ RSub(ForwardGetQuantile(cfg.self.distribution, cfg.alpha),
            ForwardGetQuantile(cfg.other.distribution, cfg.alpha)) = C20_Eps
    /\ cfg.self.mean_cache = cfg.other.mean_cache
    /\ RSub(cfg.other.variance_cache, cfg.self.variance_cache) = Frac(2, 1000000)
    /\ result.self_other

\* C21: for reverse labels A and B at the same node, A dominates B exactly
\* when Q_A > Q_B + eps with mean_A >= mean_B - eps and var_A <= var_B + eps,
\* or Q_A >= Q_B - eps with mean_A > mean_B + eps or var_A < var_B - eps and
\* both mean_A >= mean_B - eps and var_A <= var_B + eps; Q is the
\* (1 - alpha)-quantile and eps = 1e-6.  A label that is better on the
\* quantile and worse on the mean or on the variance does not dominate.
C21_ReverseTwoTier ==
    (/\ pc = "returned" /\ cfg.call = "dominates_weak" /\ cfg.mode = "reverse"
     /\ cfg.self.node_id = cfg.other.node_id) =>
        LET Q_A == ReverseGetQuantile(cfg.self.distribution, RSub(R(1), cfg.alpha))
            Q_B == ReverseGetQuantile(cfg.other.distribution, RSub(R(1), cfg.alpha))
            mean_A == cfg.self.mean_cache
            mean_B == cfg.other.mean_cache
            var_A == cfg.self.variance_cache
            var_B == cfg.other.variance_cache
            secondaries_not_worse ==
                /\ RLe(RSub(mean_B, C20_Eps), mean_A)
                /\ RLe(var_A, RAdd(var_B, C20_Eps))
        IN  /\ result.self_other <=>
                \/ RLt(RAdd(Q_B, C20_Eps), Q_A) /\ secondaries_not_worse
                \/ /\ RLe(RSub(Q_B, C20_Eps), Q_A)
                   /\ \/ RLt(RAdd(mean_B, C20_Eps), mean_A)
                      \/ RLt(var_A, RSub(var_B, C20_Eps))
                   /\ secondaries_not_worse
            /\ (/\ RLt(RAdd(Q_B, C20_Eps), Q_A)
                /\ \/ RLt(mean_A, RSub(mean_B, C20_Eps))
                   \/ RLt(RAdd(var_B, C20_Eps), var_A)) => ~result.self_other

\* A reverse comparison decided by the first tier: the quantile of self is
\* 2 eps later, its mean eps smaller (not worse within the tolerance), the
\* variances are equal
C21_Witness ==
    /\ pc = "returned" /\ cfg.call = "dominates_weak" /\ cfg.mode = "reverse"
    /\ cfg.self.node_id = cfg.other.node_id
    /\ RSub(ReverseGetQuantile(cfg.self.distribution, RSub(R(1), cfg.alpha)),
            ReverseGetQuantile(cfg.other.distribution, RSub(R(1), cfg.alpha)))
         = Frac(2, 1000000)
    /\ RSub(cfg.other.mean_cache, cfg.self.mean_cache) = C20_Eps
    /\ cfg.self.variance_cache = cfg.other.variance_cache
    /\ result.self_other /\ ~result.other_self

\* C22: dominates_weak is transitive on the labels of one node, for the
\* forward and for the reverse rule: if A dominates B and B dominates C then
\* A dominates C.
C22_Transitive ==
    (pc = "returned" /\ cfg.call = "dominates_weak chain") =>
        ((result.a_b /\ result.b_c) => result.a_c)

\* The ranking score of _prune_labels and its order: a is ranked before b
C23_Score(label) ==
    IF cfg.mode = "forward"
    THEN <<ForwardGetQuantile(label.distribution, cfg.alpha),
           label.mean_cache, label.variance_cache>>
    ELSE <<ReverseGetQuantile(label.distribution, RSub(R(1), cfg.alpha)),
           label.mean_cache, RNeg(label.variance_cache)>>

C23_Smaller(s, t) ==
    \/ RLt(s[1], t[1])
    \/ s[1] = t[1] /\ RLt(s[2], t[2])
    \/ s[1] = t[1] /\ s[2] = t[2] /\ RLt(s[3], t[3])

C23_Better(a, b) ==
    IF cfg.mode = "forward" THEN C23_Smaller(C23_Score(a), C23_Score(b))
    ELSE C23_Smaller(C23_Score(b), C23_Score(a))

C23_Table(tables, n) == {tables[n][i] : i \in 1..Len(tables[n])}

\* One step of the search seen from the table of node n: the label pushed
\* for n, if any, joins the labels it does not dominate, and a table that
\* would exceed the cap keeps the best max_labels_per_node of them
C23_InsertionAt(n) ==
    LET pushed == {open_labels'[i] : i \in 1..Len(open_labels')}
                      \ {open_labels[i] : i \in 1..Len(open_labels)}
        new == {l \in pushed : l.node_id = n}
        cap == Solver.max_labels_per_node
    IN  IF new = {} THEN node_labels'[n] = node_labels[n]
        ELSE LET L == CHOOSE l \in new : TRUE
                 offered == {old \in C23_Table(node_labels, n) :
                               ~DominatesWeak(cfg.mode, L, old, cfg.alpha)} \cup {L}
                 after == C23_Table(node_labels', n)
             IN  /\ Cardinality(new) = 1
                 /\ Cardinality(after) = Len(node_labels'[n])
                 /\ IF Cardinality(offered) <= cap THEN after = offered
                    ELSE /\ Cardinality(after) = cap
                         /\ after \subseteq offered
                         /\ \A dropped \in offered \ after : \A retained \in after :
                                ~C23_Better(dropped, retained)

\* C23: each node's label table holds at most max_labels_per_node labels in
\* every state of the search loop, and an insertion that would exceed the
\* cap leaves the max_labels_per_node best labels by ranking score
\* (quantile, mean, variance: smallest first forward; largest quantile,
\* largest mean, smallest variance first reverse), the new label included
\* in the ranking.
C23_TableCap ==
    /\ [](pc \in {"loop", "break"} =>
             \A n \in Nodes : Len(node_labels[n]) <= Solver.max_labels_per_node)
    /\ [][pc = "loop" => \A n \in Nodes : C23_InsertionAt(n)]_vars

\* A label of the open queue was truncated out of its node's full table: it
\* is not in the table, no label was swept or discarded by dominance so far,
\* and no label of the table is ranked behind it
C23_Witness ==
    /\ pc = "loop"
    /\ stats.labels_dominated = 0
    /\ \E i \in 1..Len(open_labels) :
          LET l == open_labels[i]
              table == C23_Table(node_labels, l.node_id)
          IN  /\ l \notin table
              /\ Cardinality(table) = Solver.max_labels_per_node
              /\ \A retained \in table : ~C23_Better(l, retained)

\* The labels of the table of node n that dominate label l
C24_Dominators(n, l) ==
    {i \in 1..Len(node_labels[n]) :
        DominatesWeak(cfg.mode, node_labels[n][i], l, cfg.alpha)}

\* C24: in every state of the search no label of a node's table is
\* dominated by another label of the same table.
C24_NoDominatedLabel ==
    pc \in {"loop", "break"} =>
        \A n \in Nodes : \A i \in 1..Len(node_labels[n]) :
            C24_Dominators(n, node_labels[n][i]) = {}

\* C24, amended: in every state of the search a label of a node's table is
\* dominated by at most one other label of the same table.
C24_AtMostOneDominator ==
    pc \in {"loop", "break"} =>
        \A n \in Nodes : \A i \in 1..Len(node_labels[n]) :
            Cardinality(C24_Dominators(n, node_labels[n][i])) <= 1

\* After an expansion a table holds a label together with its one dominator
C24_Witness ==
    /\ pc = "loop"
    /\ stats.labels_extended >= 1
    /\ \E n \in Nodes : \E i \in 1..Len(node_labels[n]) :
          Cardinality(C24_Dominators(n, node_labels[n][i])) = 1

\* The pruning test as stated: at least 2 dominators in a table below the
\* cap, at least 1 in a full table
C25_Rule(label, table) ==
    LET dominators == Cardinality({i \in 1..Len(table) :
                         DominatesWeak(cfg.mode, table[i], label, cfg.alpha)})
    IN  \/ Len(table) < Solver.max_labels_per_node /\ dominators >= 2
        \/ Len(table) >= Solver.max_labels_per_node /\ dominators >= 1

\* The children that the expansion of the popped label generates: one for
\* each neighbour off its path whose convolution succeeds
C25_Children ==
    LET nbrs == Neighbours(cfg.mode, Solver.edges, Popped.item.node_id)
        Child(n, conv) ==
            IF conv.ok THEN {NewLabel(cfg.mode, n, conv.dist, Popped.item, cfg.alpha)}
            ELSE {}
    IN  UNION {Child(nbrs[k], Convolve(cfg.mode, Solver, Popped.item.distribution,
                                       slot_cache, Popped.item.node_id, nbrs[k])) :
                 k \in {j \in 1..Len(nbrs) : ~InPath(nbrs[j], Popped.item.path)}}

\* One iteration on a popped non-terminal label
C25_Iteration ==
    IF C25_Rule(Popped.item, node_labels[Popped.item.node_id])
    THEN /\ open_labels' = Popped.heap
         /\ node_labels' = node_labels
         /\ stats' = [stats EXCEPT !.labels_dominated = @ + 1]
    ELSE /\ stats'.labels_extended = stats.labels_extended + 1
         /\ \A child \in C25_Children :
               IF C25_Rule(child, node_labels[child.node_id])
               THEN /\ \A i \in 1..Len(open_labels') : open_labels'[i] # child
                    /\ \A i \in 1..Len(node_labels'[child.node_id]) :
                          node_labels'[child.node_id][i] # child
               ELSE \E i \in 1..Len(open_labels') : open_labels'[i] = child

C26_Failed ==
    LET nbrs == Neighbours(cfg.mode, Solver.edges, Popped.item.node_id)
    IN  {nbrs[k] : k \in {j \in 1..Len(nbrs) :
            /\ ~InPath(nbrs[j], Popped.item.path)
            /\ ~Convolve(cfg.mode, Solver, Popped.item.distribution, slot_cache,
                         Popped.item.node_id, nbrs[j]).ok}}

\* The counters of self.stats that count something else
C26_OtherCounters ==
    {"labels_generated", "labels_dominated", "labels_extended", "convolutions"}

\* An expansion with failed convolutions skips the failed neighbours and
\* goes on: no label for them in the queue or in their tables, every other
\* child generated, the loop not left
C26_Skipped ==
    /\ \A n \in C26_Failed :
          /\ \A i \in 1..Len(open_labels') :
                open_labels'[i].path # Append(Popped.item.path, n)
          /\ node_labels'[n] = node_labels[n]
    /\ stats'.labels_generated = stats.labels_generated + Cardinality(C25_Children)
    /\ stats'.convolutions = stats.convolutions + Cardinality(C25_Children)
    /\ pc' = "loop"

\* A counter of the statistics goes up by the number of failures
C26_Counted ==
    \E k \in DOMAIN stats' \ C26_OtherCounters :
        stats'[k] = (IF k \in DOMAIN stats THEN stats[k] ELSE 0)
                        + Cardinality(C26_Failed)

\* C26: when the convolution across an edge fails during an expansion, the
\* neighbour is skipped, a failure counter of the statistics is incremented,
\* no label is generated or inserted for it, the other neighbours of the
\* label are still expanded and the search goes on.
C26_FailureCounted ==
    [][(/\ pc = "loop" /\ LoopCond /\ Popped.item.node_id # TerminalNode
        /\ ~C25_Rule(Popped.item, node_labels[Popped.item.node_id])
        /\ C26_Failed # {}) => (C26_Skipped /\ C26_Counted)]_vars

\* The label about to be popped is no longer in the table of its node
C27_PoppedRemoved ==
    /\ pc = "loop" /\ LoopCond
    /\ Popped.item \notin C23_Table(node_labels, Popped.item.node_id)

\* C27: a label that has been removed from its node's table is neither
\* expanded nor recorded as a candidate when it is popped later.
C27_RemovedNeverUsed ==
    [][C27_PoppedRemoved =>
          /\ stats'.labels_extended = stats.labels_extended
          /\ candidates' = candidates]_vars

\* C27, amended: a label removed from its node's table stays in the open
\* queue.  When it is popped at the terminal node it is recorded as a
\* candidate; elsewhere it is discarded if the pruning test holds for it on
\* the present table of its node, and expanded otherwise.
C27_RemovedStillUsed ==
    [][C27_PoppedRemoved =>
          IF Popped.item.node_id = TerminalNode
          THEN /\ Len(candidates') = Len(candidates) + 1
               /\ candidates'[Len(candidates')].label = Popped.item
               /\ stats' = stats
          ELSE IF C25_Rule(Popped.item, node_labels[Popped.item.node_id])
          THEN /\ stats'.labels_extended = stats.labels_extended
               /\ stats'.labels_dominated = stats.labels_dominated + 1
               /\ candidates' = candidates
          ELSE /\ stats'.labels_extended = stats.labels_extended + 1
               /\ candidates' = candidates]_vars

\* A label swept out of its table by a label that dominates it and is still
\* there is about to be popped and expanded
C27_Witness ==
    /\ C27_PoppedRemoved
    /\ Popped.item.node_id # TerminalNode
    /\ ~C25_Rule(Popped.item, node_labels[Popped.item.node_id])
    /\ \E l \in C23_Table(node_labels, Popped.item.node_id) :
          DominatesWeak(cfg.mode, l, Popped.item, cfg.alpha)

\* C28: the slot that a convolution uses for an integer time t, negative
\* times included, is floor(t / 10) mod time_intervals_per_day, a value in
\* 0..time_intervals_per_day - 1.
C28_SlotIsFloorMod ==
    (pc = "returned" /\ cfg.call = "slot_dep") =>
        /\ result.slot_dep = (cfg.t_dep \div 10) % cfg.time_intervals_per_day
        /\ result.slot_dep \in 0..(cfg.time_intervals_per_day - 1)

\* Every consecutive pair of an origin-to-destination path is an edge
C29_IsWalk(path) ==
    \A i \in 1..(Len(path) - 1) :
        \E k \in 1..Len(Solver.edges) : Solver.edges[k] = <<path[i], path[i + 1]>>

\* The path of a label in the order origin to destination: the label's own
\* path for the forward search, its reversal for the reverse search
C29_OriginToDestination(path) ==
    IF cfg.mode = "forward" THEN path
    ELSE [i \in 1..Len(path) |-> path[Len(path) + 1 - i]]

C29_TerminalOnlyLast(path) ==
    \A i \in 1..Len(path) : path[i] = TerminalNode => i = Len(path)

C29_Paths(cands) == {cands[i].path : i \in 1..Len(cands)}

\* C29: the path of every label of the open queue and of the node tables is
\* a walk in the network along the edges of the forward adjacency list (for
\* the reverse search after reversal) on which the terminal node occurs only
\* as the last node reached, and every candidate path, recorded or returned,
\* is such a walk from the origin to the destination.
C29_PathsAreWalks ==
    /\ pc \in {"loop", "break"} =>
          /\ \A label \in C17_Labels :
                /\ C29_IsWalk(C29_OriginToDestination(label.path))
                /\ C29_TerminalOnlyLast(label.path)
          /\ \A path \in C29_Paths(candidates) : C29_IsWalk(path)
    /\ (pc = "done" /\ result.success) =>
          /\ C29_IsWalk(result.path)
          /\ \A path \in C29_Paths(result.all_candidates)
                           \cup C29_Paths(result.top_k_candidates) :
                /\ C29_IsWalk(path)
                /\ path[1] = cfg.origin /\ path[Len(path)] = cfg.destination
                /\ \A i \in 1..Len(path) :
                      path[i] = TerminalNode =>
                          i = (IF cfg.mode = "forward" THEN Len(path) ELSE 1)

\* A reverse call returned two candidates, one of them a path over three
\* edges
C29_Witness ==
    /\ pc = "done" /\ result.success /\ cfg.mode = "reverse"
    /\ Len(result.all_candidates) >= 2
    /\ \E path \in C29_Paths(result.all_candidates) : Len(path) >= 4

\* The slot list that the next expansion uses for the edge between the
\* popped label's node and each neighbour off its path is the sorted set of
\* the slots of that edge in the link table of the solver that is solving
C30_UsesOwnSlots ==
    (/\ pc = "loop" /\ LoopCond /\ Popped.item.node_id # TerminalNode
     /\ ~C25_Rule(Popped.item, node_labels[Popped.item.node_id])) =>
        LET nbrs == Neighbours(cfg.mode, Solver.edges, Popped.item.node_id)
            u(n) == IF cfg.mode = "forward" THEN Popped.item.node_id ELSE n
            v(n) == IF cfg.mode = "forward" THEN n ELSE Popped.item.node_id
            own(n) == {Solver.links[i].slot : i \in
                         {k \in 1..Len(Solver.links) :
                            Solver.links[k].u = u(n) /\ Solver.links[k].v = v(n)}}
            used(n) == GetAvailableSlots(slot_cache, Solver.links, u(n), v(n)).slots
        IN  \A j \in 1..Len(nbrs) :
                ~InPath(nbrs[j], Popped.item.path) =>
                    /\ {used(nbrs[j])[i] : i \in 1..Len(used(nbrs[j]))} = own(nbrs[j])
                    /\ \A i \in 1..(Len(used(nbrs[j])) - 1) :
                          used(nbrs[j])[i] < used(nbrs[j])[i + 1]

\* C30: in a sequence of solves by solver instances over different link
\* tables, the slot list used for an edge is the sorted set of the slots of
\* that edge in the link table of the solver performing the solve, and the
\* result of a solve is what the same solve returns in a new process.
C30_SolvesIsolated ==
    /\ C30_UsesOwnSlots
    /\ (pc = "done" /\ cfg.run = "fresh") => result = cfg.previous[1]

====
